---- MODULE Spec2Model ----
(***************************************************************************)
(* Model of the SEO audit platform: the BFS crawler (CrawlerEngine.run and *)
(* its per-URL coroutine crawl_url), the Celery audit pipeline             *)
(* (audit_tasks.py) and the scoring aggregation (ScoringEngine.run).       *)
(***************************************************************************)
EXTENDS Integers, Sequences, FiniteSets, TLC

(***************************************************************************)
(* Bounds of the model.                                                    *)
(***************************************************************************)
MaxPagesBound == 2
MaxConcurrency == 2
MaxDepthBound == 1
MaxLinks == 1
MaxSitemap == 1
MaxResults == 3
MaxEnginePages == 2
MaxIssues == 2
MaxAffected == 52

(***************************************************************************)
(* URLs.  A URL is a record of its parsed parts (urlparse):                *)
(*   scheme, host (labels and whether it is written in upper case),        *)
(*   path (segments, whether a trailing slash follows), query (the         *)
(*   sequence of parameter names), frag (whether a fragment is present).   *)
(***************************************************************************)
Reject == [reject |-> TRUE]

MkUrl(scheme, labels, upper, segs, trail, query, frag) ==
    [scheme |-> scheme, labels |-> labels, upper |-> upper,
     segs |-> segs, trail |-> trail, query |-> query, frag |-> frag]

IGNORED_PARAMS == {"utm_source", "utm_medium", "utm_campaign", "utm_content",
                   "utm_term", "ref", "fbclid", "gclid"}

\* Last path segments of the model whose lower-cased text ends with one of
\* IGNORED_EXTENSIONS.
IgnoredExtensionSegs == {"f.pdf", "s.css"}

\* any(path_lower.endswith(ext) ...): the path string ends with the extension
\* only when no slash follows the last segment.
HasIgnoredExtension(u) ==
    /\ Len(u.segs) > 0
    /\ ~u.trail
    /\ u.segs[Len(u.segs)] \in IgnoredExtensionSegs

\* parse_qs groups the values by key, keys in order of first appearance;
\* urlencode(doseq=True) writes them back key by key.
RECURSIVE GroupByKey(_)
GroupByKey(q) ==
    IF q = <<>> THEN <<>>
    ELSE LET k == Head(q)
             same == SelectSeq(q, LAMBDA x : x = k)
             rest == SelectSeq(q, LAMBDA x : x # k)
         IN same \o GroupByKey(rest)

FilterQueryKeepsAll(q) == GroupByKey(q)

FilterQuery(q) == GroupByKey(SelectSeq(q, LAMBDA k : k \notin IGNORED_PARAMS))

\* URLNormalizer.normalize on an absolute URL (urljoin keeps an absolute URL).
Normalize(u) ==
    IF u.scheme \notin {"http", "https"} THEN Reject
    ELSE IF HasIgnoredExtension(u) THEN Reject
    ELSE [u EXCEPT !.upper = FALSE,
                   !.query = FilterQuery(u.query),
                   !.trail = FALSE,
                   !.frag = FALSE]

\* host.endswith("." + root_domain)
IsLabelSuffix(labels, root) ==
    /\ Len(labels) > Len(root)
    /\ SubSeq(labels, Len(labels) - Len(root) + 1, Len(labels)) = root

\* URLNormalizer.is_same_domain: the host is lower-cased before comparing.
IsSameDomain(u, domain) ==
    \/ u.labels = domain
    \/ IsLabelSuffix(u.labels, domain)

(***************************************************************************)
(* The site being crawled: the root URL and the URLs that sitemaps and     *)
(* pages of the site may name.                                             *)
(***************************************************************************)
RootDomain == <<"ex", "com">>
RootUrl == MkUrl("https", RootDomain, FALSE, <<>>, FALSE, <<>>, FALSE)

RawUrls ==
    { RootUrl,
      MkUrl("https", RootDomain, FALSE, <<"a">>, FALSE, <<>>, FALSE),
      MkUrl("https", RootDomain, TRUE, <<"a">>, TRUE, <<"utm_source">>, TRUE),
      MkUrl("https", <<"sub", "ex", "com">>, FALSE, <<"b">>, FALSE, <<>>, FALSE),
      MkUrl("https", <<"other", "com">>, FALSE, <<>>, FALSE, <<>>, FALSE),
      MkUrl("https", RootDomain, FALSE, <<"f.pdf">>, FALSE, <<>>, FALSE) }

\* HTML bodies a fetch may return: "" is the body of a failed fetch, "hflag"
\* is a document holding <meta name="is_duplicate_content" content="true">.
Htmls == {"", "h1", "hflag"}

SeqsUpTo(S, n) == UNION { [1..k -> S] : k \in 0..n }

Min(a, b) == IF a <= b THEN a ELSE b

\* _parse_html: page.meta[name.lower()] = content for every <meta> tag.
ParsedDuplicateFlag(html) == html = "hflag"

\* hashlib.md5(page.html.encode()).hexdigest(): distinct bodies of the model
\* have distinct digests.
Fingerprint(html) == <<"md5", html>>

VARIABLES
    cpc,            \* position of CrawlerEngine.run
    max_pages, max_depth, concurrency,
    robots,         \* RobotsHandler._parsers[domain]: [parsed, disallowed]
    queue,          \* deque of CrawlURL
    visited,        \* set of normalized URLs
    fingerprints,   \* set of content fingerprints
    crawled_pages,  \* list of PageData
    tasks,          \* the coroutines of the current batch, in batch order
    sem,            \* asyncio.Semaphore value
    stats,          \* CrawlStats
    site_data,      \* site_data.pages and site_data.crawl_stats
    fetch_count,    \* history: calls of fetcher.fetch per normalized URL
    raised,         \* history: the normalized URLs whose coroutine raised, in order
    root_links,     \* history: the other same-domain URLs one link away from the root
    \* -- the audit pipeline (audit_tasks.py)
    status,         \* Audit.status
    error_message,  \* whether Audit.error_message is set
    full_task,      \* run_full_audit: [state, retries]
    crawl_task,     \* run_crawl_task: [state, retries, run_raised]
    analysis_task,  \* run_analysis_engines: state
    engine_tasks,   \* run_engine_task per engine: [state, retries, runs, result, cause]
    finalize_task,  \* finalize_audit_task: state
    events,         \* history: the steps the tasks have executed, in order
    recorded,       \* columns of the Audit row that _update_audit_status has set
    \* -- scoring (ScoringEngine.run)
    spc,            \* position of ScoringEngine.run
    engine_results, \* site_data.settings["engine_results"]
    overall_score,  \* overall score, in hundredths
    \* -- a single call of one of the program's functions
    fpc,            \* "idle", "called" or "returned"
    arg,            \* the arguments of the call
    ret,            \* what the call returned or raised
    \* -- one RateLimiter and the coroutines calling acquire (crawler/engine.py)
    limiter,        \* RateLimiter: [rate, max_tokens, tokens, last_refill]
    lock,           \* RateLimiter._lock: [locked, waiters]
    now,            \* time.time(), in ticks
    callers,        \* position of each call of acquire
    calls,          \* history: the calls that entered the locked block, in order
    \* -- the data handed from task to task within one audit (audit_tasks.py)
    hpc,            \* how far the data has travelled
    robots_response,\* history: the response to GET /robots.txt
    crawl_site_data,\* site_data of run_crawl_task after the crawler has run
    crawl_return,   \* what run_crawl_task returns
    engine_input,   \* per analysis engine: the SiteData passed to execute
    engine_output,  \* per analysis engine: what run_engine_task returns
    finalize_input, \* settings["engine_results"] in finalize_audit_task
    \* -- sitemap discovery (SitemapParser)
    sm_pc,          \* position of SitemapParser.discover
    sm_site,        \* the documents the site serves, per URL
    sm_candidates,  \* the candidates discover has not fetched yet
    sm_stack,       \* the active calls of _fetch_sitemap, outermost first
    sm_urls         \* sitemap_urls of discover

crawlVars == <<cpc, max_pages, max_depth, concurrency, robots, queue, visited,
               fingerprints, crawled_pages, tasks, sem, stats, site_data,
               fetch_count, raised, root_links>>

auditVars == <<status, error_message, full_task, crawl_task, analysis_task,
               engine_tasks, finalize_task, events, recorded>>

scoreVars == <<spc, engine_results, overall_score>>

callVars == <<fpc, arg, ret>>

rateVars == <<limiter, lock, now, callers, calls>>

flowVars == <<hpc, robots_response, crawl_site_data, crawl_return, engine_input,
              engine_output, finalize_input>>

sitemapVars == <<sm_pc, sm_site, sm_candidates, sm_stack, sm_urls>>

vars == <<crawlVars, auditVars, scoreVars, callVars, rateVars, flowVars, sitemapVars>>

NoneResult == [kind |-> "none"]
ExcResult == [kind |-> "exception"]
NoStats == [populated |-> FALSE]

CrawlURL(url, depth, via) == [url |-> url, depth |-> depth, via |-> via]

\* Faulty variant of CanFetch: robots.txt is not consulted.
CanFetchAlways(n) == TRUE

\* RobotsHandler.can_fetch: hosts without a parser are allowed; a parser that
\* never parsed a file (fetch failed, or status other than 200) has
\* last_checked = 0 and RobotFileParser.can_fetch answers False.
CanFetch(n) ==
    IF n.labels # RootDomain THEN TRUE
    ELSE IF ~robots.parsed THEN FALSE
    ELSE n.segs \notin robots.disallowed

ANALYSIS_ENGINES == {"technical", "onpage"}

\* The audit as create_audit leaves it: status pending, run_full_audit queued.
AuditIdle ==
    /\ status = "pending"
    /\ error_message = FALSE
    /\ full_task = [state |-> "queued", retries |-> 0]
    /\ crawl_task = [state |-> "idle", retries |-> 0, run_raised |-> FALSE]
    /\ analysis_task = "idle"
    /\ engine_tasks = [e \in ANALYSIS_ENGINES |->
                         [state |-> "idle", retries |-> 0, runs |-> 0,
                          result |-> "none", cause |-> "none"]]
    /\ finalize_task = "idle"
    /\ events = <<>>
    /\ recorded = {}

ScoringIdle ==
    /\ spc = "idle"
    /\ engine_results = <<>>
    /\ overall_score = 0

\* No function call is being observed.
NoCall == [kind |-> "none"]

CallIdle ==
    /\ fpc = "idle"
    /\ arg = NoCall
    /\ ret = NoCall

\* SitemapParser.discover has not been called.
SitemapIdle ==
    /\ sm_pc = "idle"
    /\ sm_site = <<>>
    /\ sm_candidates = <<>>
    /\ sm_stack = <<>>
    /\ sm_urls = {}

\* No task of the audit has produced data yet.
FlowIdle ==
    /\ hpc = "idle"
    /\ robots_response = NoCall
    /\ crawl_site_data = NoCall
    /\ crawl_return = NoCall
    /\ engine_input = [e \in ANALYSIS_ENGINES |-> NoCall]
    /\ engine_output = [e \in ANALYSIS_ENGINES |-> NoCall]
    /\ finalize_input = NoCall

\* No RateLimiter has been constructed.
RateIdle ==
    /\ limiter = [rate |-> 0, max_tokens |-> 0, tokens |-> 0, last_refill |-> 0]
    /\ lock = [locked |-> FALSE, waiters |-> <<>>]
    /\ now = 0
    /\ callers = <<>>
    /\ calls = <<>>

NormalizedRawUrls == { Normalize(u) : u \in RawUrls } \ {Reject}

CrawlInit ==
    /\ cpc = "init"
    /\ max_pages \in 1..MaxPagesBound
    /\ max_depth \in 0..MaxDepthBound
    /\ concurrency \in 1..MaxConcurrency
    /\ robots = [parsed |-> TRUE, disallowed |-> {}]
    /\ queue = <<>>
    /\ visited = {}
    /\ fingerprints = {}
    /\ crawled_pages = <<>>
    /\ tasks = <<>>
    /\ sem = 0
    /\ stats = [total_queued |-> 0, total_crawled |-> 0,
                total_failed |-> 0, total_skipped |-> 0]
    /\ site_data = [pages |-> <<>>, crawl_stats |-> NoStats]
    /\ fetch_count = [n \in NormalizedRawUrls |-> 0]
    /\ raised = <<>>
    /\ root_links = {}

\* Seeding (steps 1-3 of run): robots.txt is fetched, sitemaps are discovered,
\* the root URL is appended, then the normalized sitemap URLs at depth 1.
RECURSIVE SitemapSeeds(_)
SitemapSeeds(surls) ==
    IF surls = <<>> THEN <<>>
    ELSE LET n == Normalize(Head(surls))
         IN (IF n = Reject THEN <<>> ELSE <<CrawlURL(n, 1, "sitemap")>>)
            \o SitemapSeeds(Tail(surls))

\* sitemap_urls[:1000]
SitemapSeedCap == 1000

\* What sitemap_parser.discover may return: every list of up to MaxSitemap
\* URLs, and the lists of up to MaxSitemap + 1 URLs over two spellings of one
\* page.
LongSitemapUrls ==
    { MkUrl("https", RootDomain, FALSE, <<"a">>, FALSE, <<>>, FALSE),
      MkUrl("https", RootDomain, TRUE, <<"a">>, TRUE, <<"utm_source">>, TRUE) }

DiscoveredSitemaps ==
    SeqsUpTo(RawUrls, MaxSitemap) \cup SeqsUpTo(LongSitemapUrls, MaxSitemap + 1)

RobotsOutcomes ==
    { [parsed |-> FALSE, disallowed |-> {}],
      [parsed |-> TRUE, disallowed |-> {}],
      [parsed |-> TRUE, disallowed |-> {<<"a">>}] }

RunSeed ==
    /\ cpc = "init"
    /\ UNCHANGED <<auditVars, scoreVars, callVars, rateVars, flowVars, sitemapVars,
                   root_links>>
    /\ \E r \in RobotsOutcomes, sitemap_urls \in DiscoveredSitemaps :
         LET surls == SubSeq(sitemap_urls, 1, Min(SitemapSeedCap, Len(sitemap_urls)))
         IN /\ robots' = r
            /\ queue' = <<CrawlURL(RootUrl, 0, "manual")>> \o SitemapSeeds(surls)
            /\ stats' = [stats EXCEPT !.total_queued = 1 + Len(SitemapSeeds(surls))]
    /\ sem' = concurrency
    /\ cpc' = "loop"
    /\ UNCHANGED <<max_pages, max_depth, concurrency, visited, fingerprints,
                   crawled_pages, tasks, site_data, fetch_count,
                   raised>>

\* Faulty variant of LoopCondition: the page budget compared with <= instead of <.
LoopConditionOffByOne == queue # <<>> /\ Len(crawled_pages) <= max_pages

\* while queue and len(crawled_pages) < max_pages
LoopCondition == queue # <<>> /\ Len(crawled_pages) < max_pages

\* Faulty variant of BatchSize: the remaining page budget is left out of the minimum.
BatchSizeNoBudget == Min(concurrency * 2, Len(queue))

\* batch_size = min(concurrency * 2, len(queue), max_pages - len(crawled_pages))
BatchSize == Min(Min(concurrency * 2, Len(queue)), max_pages - Len(crawled_pages))

NewTask(item) == [item |-> item, pc |-> "wait", norm |-> Reject, result |-> NoneResult]

\* batch = [queue.popleft() ...]; asyncio.gather creates one coroutine per item.
TakeBatch ==
    /\ cpc = "loop"
    /\ UNCHANGED <<auditVars, scoreVars, callVars, rateVars, flowVars, sitemapVars,
                   root_links>>
    /\ LoopCondition
    /\ tasks' = [i \in 1..BatchSize |-> NewTask(queue[i])]
    /\ queue' = SubSeq(queue, BatchSize + 1, Len(queue))
    /\ cpc' = "gather"
    /\ UNCHANGED <<max_pages, max_depth, concurrency, robots, visited,
                   fingerprints, crawled_pages, sem, stats, site_data, fetch_count,
                   raised>>

\* Faulty variant of SemaphoreFree: the semaphore never blocks.
SemaphoreNeverBlocks == TRUE

\* asyncio.Semaphore: a coroutine passes `async with semaphore` only while the
\* value is positive.
SemaphoreFree == sem > 0

\* Faulty variant of AlreadyVisited: the dedup check is skipped.
AlreadyVisitedNever(n) == FALSE

\* Dedup check: `if normalized in visited`.
AlreadyVisited(n) == n \in visited

Finish(i, res) == [tasks EXCEPT ![i].pc = "done", ![i].result = res]

\* Faulty variant of TooDeep: the depth check is skipped.
TooDeepNever(item) == FALSE

\* Depth check: `if crawl_item.depth > max_depth`.
TooDeep(item) == item.depth > max_depth

\* crawl_url from `async with semaphore` up to `await rate_limiter.acquire()`:
\* no suspension point lies between, so the checks run as one step.
TaskEnter(i) ==
    /\ cpc = "gather"
    /\ UNCHANGED <<auditVars, scoreVars, callVars, rateVars, flowVars, sitemapVars,
                   root_links>>
    /\ i \in DOMAIN tasks
    /\ tasks[i].pc = "wait"
    /\ \A j \in 1..(i - 1) : tasks[j].pc # "wait"
    /\ SemaphoreFree
    /\ LET item == tasks[i].item
           n == Normalize(item.url)
       IN IF n = Reject \/ ~IsSameDomain(n, RootDomain) \/ AlreadyVisited(n)
          THEN /\ tasks' = Finish(i, NoneResult)
               /\ UNCHANGED <<visited, stats, sem>>
          ELSE /\ visited' = visited \cup {n}
               /\ IF TooDeep(item) \/ ~CanFetch(n)
                  THEN /\ stats' = [stats EXCEPT !.total_skipped = @ + 1]
                       /\ tasks' = Finish(i, NoneResult)
                       /\ UNCHANGED sem
                  ELSE /\ tasks' = [tasks EXCEPT ![i].pc = "rate", ![i].norm = n]
                       /\ sem' = sem - 1
                       /\ UNCHANGED stats
    /\ UNCHANGED <<cpc, max_pages, max_depth, concurrency, robots, queue,
                   fingerprints, crawled_pages, site_data, fetch_count,
                   raised>>

\* `await rate_limiter.acquire()` returns; fetcher.fetch(normalized) is called.
TaskRateAcquired(i) ==
    /\ cpc = "gather"
    /\ UNCHANGED <<auditVars, scoreVars, callVars, rateVars, flowVars, sitemapVars,
                   root_links>>
    /\ i \in DOMAIN tasks
    /\ tasks[i].pc = "rate"
    /\ tasks' = [tasks EXCEPT ![i].pc = "fetch"]
    /\ fetch_count' = [fetch_count EXCEPT ![tasks[i].norm] = @ + 1]
    /\ UNCHANGED <<cpc, max_pages, max_depth, concurrency, robots, queue, visited,
                   fingerprints, crawled_pages, sem, stats, site_data, raised>>

\* The link loop of crawl_url: every link is normalized and appended while
\* len(queue) + len(visited) < max_pages * 2.
RECURSIVE EnqueueLinks(_, _, _)
EnqueueLinks(links, q, depth) ==
    IF links = <<>> THEN q
    ELSE LET ln == Normalize(Head(links))
             ok == /\ ln # Reject
                   /\ ln \notin visited
                   /\ IsSameDomain(ln, RootDomain)
                   /\ Len(q) + Cardinality(visited) < max_pages * 2
         IN EnqueueLinks(Tail(links),
                         IF ok THEN Append(q, CrawlURL(ln, depth + 1, "link")) ELSE q,
                         depth)

\* The URLs the link loop accepts apart from its visited and size conditions:
\* the normalized same-domain links of a page.
LinkTargets(links) ==
    { ln \in { Normalize(links[k]) : k \in DOMAIN links } :
          ln # Reject /\ IsSameDomain(ln, RootDomain) }

\* Duplicate content detection: the flag is written into page.meta, the same
\* mapping _parse_html fills from the document's <meta> tags.
DuplicateFlag(html) ==
    \/ ParsedDuplicateFlag(html)
    \/ (html # "" /\ Fingerprint(html) \in fingerprints)

\* fetcher.fetch returns a page; the rest of crawl_url runs without suspension.
TaskFetchDone(i) ==
    /\ cpc = "gather"
    /\ UNCHANGED <<auditVars, scoreVars, callVars, rateVars, flowVars, sitemapVars>>
    /\ i \in DOMAIN tasks
    /\ tasks[i].pc = "fetch"
    /\ \E html \in Htmls, links \in SeqsUpTo(RawUrls, MaxLinks) :
         LET item == tasks[i].item
             page == [url |-> tasks[i].norm, depth |-> item.depth, html |-> html,
                      is_duplicate_content |-> DuplicateFlag(html),
                      order |-> stats.total_crawled + 1]
             q2 == IF item.depth < max_depth
                   THEN EnqueueLinks(links, queue, item.depth) ELSE queue
         IN /\ html = "" => links = <<>>
            /\ fingerprints' = IF html # "" THEN fingerprints \cup {Fingerprint(html)}
                               ELSE fingerprints
            /\ queue' = q2
            /\ stats' = [stats EXCEPT !.total_crawled = @ + 1,
                                      !.total_queued = @ + Len(q2) - Len(queue)]
            /\ tasks' = Finish(i, [kind |-> "page", page |-> page])
            /\ root_links' = IF tasks[i].norm = Normalize(RootUrl) /\ max_depth > 0
                              THEN LinkTargets(links) \ {tasks[i].norm}
                              ELSE root_links
    /\ sem' = sem + 1
    /\ UNCHANGED <<cpc, max_pages, max_depth, concurrency, robots, visited,
                   crawled_pages, site_data, fetch_count,
                   raised>>

\* The coroutine raises while it holds the semaphore (the rate limiter or the
\* fetcher raises); gather(return_exceptions=True) keeps the exception.
TaskRaises(i) ==
    /\ cpc = "gather"
    /\ UNCHANGED <<auditVars, scoreVars, callVars, rateVars, flowVars, sitemapVars,
                   root_links>>
    /\ i \in DOMAIN tasks
    /\ tasks[i].pc \in {"rate", "fetch"}
    /\ tasks' = Finish(i, ExcResult)
    /\ raised' = Append(raised, tasks[i].norm)
    /\ sem' = sem + 1
    /\ UNCHANGED <<cpc, max_pages, max_depth, concurrency, robots, queue, visited,
                   fingerprints, crawled_pages, stats, site_data, fetch_count>>

\* The pages among the results, in batch order.
RECURSIVE PagesOf(_)
PagesOf(ts) ==
    IF ts = <<>> THEN <<>>
    ELSE (IF Head(ts).result.kind = "page" THEN <<Head(ts).result.page>> ELSE <<>>)
         \o PagesOf(Tail(ts))

\* Faulty variant of NumExceptions: raised coroutines are not counted.
NumExceptionsNone(ts) == 0

\* The results that are instances of Exception.
NumExceptions(ts) == Cardinality({ i \in DOMAIN ts : ts[i].result.kind = "exception" })

\* Faulty variant of BatchCompleted: gather returns with the first result.
BatchCompletedIfAny == \E i \in DOMAIN tasks : tasks[i].pc = "done"

\* await asyncio.gather(...) returns when every coroutine has finished.
BatchCompleted == \A i \in DOMAIN tasks : tasks[i].pc = "done"

\* gather returns once every coroutine has finished; the results are collected.
GatherDone ==
    /\ cpc = "gather"
    /\ UNCHANGED <<auditVars, scoreVars, callVars, rateVars, flowVars, sitemapVars,
                   root_links>>
    /\ BatchCompleted
    /\ crawled_pages' = crawled_pages \o PagesOf(tasks)
    /\ stats' = [stats EXCEPT !.total_failed = @ + NumExceptions(tasks)]
    /\ tasks' = <<>>
    /\ cpc' = "loop"
    /\ UNCHANGED <<max_pages, max_depth, concurrency, robots, queue, visited,
                   fingerprints, sem, site_data, fetch_count,
                   raised>>

\* time.time() - stats.start_time when run ends, in whole seconds.
ElapsedSeconds == {0, 1, 2}

\* CrawlStats.pages_per_second, in hundredths (exact for these durations).
PagesPerSecond(st, elapsed) ==
    IF elapsed > 0 THEN (100 * st.total_crawled) \div elapsed ELSE 0

\* The loop ends; site_data.pages and site_data.crawl_stats are written and
\* run returns its AuditResult.
RunFinish ==
    /\ cpc = "loop"
    /\ UNCHANGED <<auditVars, scoreVars, callVars, rateVars, flowVars, sitemapVars,
                   root_links>>
    /\ ~LoopCondition
    /\ \E elapsed \in ElapsedSeconds :
         site_data' = [pages |-> crawled_pages,
                       crawl_stats |-> [populated |-> TRUE,
                                        total_crawled |-> stats.total_crawled,
                                        total_failed |-> stats.total_failed,
                                        total_skipped |-> stats.total_skipped,
                                        elapsed_seconds |-> 100 * elapsed,
                                        pages_per_second |->
                                            PagesPerSecond(stats, elapsed)]]
    /\ cpc' = "returned"
    /\ UNCHANGED <<max_pages, max_depth, concurrency, robots, queue, visited,
                   fingerprints, crawled_pages, tasks, sem, stats, fetch_count,
                   raised>>

CrawlNext ==
    \/ RunSeed
    \/ TakeBatch
    \/ \E i \in 1..(2 * MaxConcurrency) : TaskEnter(i)
    \/ \E i \in 1..(2 * MaxConcurrency) : TaskRateAcquired(i)
    \/ \E i \in 1..(2 * MaxConcurrency) : TaskFetchDone(i)
    \/ \E i \in 1..(2 * MaxConcurrency) : TaskRaises(i)
    \/ GatherDone
    \/ RunFinish

Init ==
    /\ CrawlInit
    /\ AuditIdle
    /\ RateIdle
    /\ FlowIdle
    /\ SitemapIdle
    /\ ScoringIdle
    /\ CallIdle

Spec == Init /\ [][CrawlNext]_vars

\* The crawl under fair scheduling: the event loop runs every coroutine that can
\* run, and every fetch and rate-limiter wait returns.
FairSpec == Spec /\ WF_vars(CrawlNext)

(***************************************************************************)
(* Properties of the crawler.                                              *)
(***************************************************************************)
InFlight == { i \in DOMAIN tasks : tasks[i].pc \in {"rate", "fetch"} }

\* Every page whose fetch has completed: the collected pages and the pages
\* returned by finished coroutines of the current batch.
CompletedPages ==
    { crawled_pages[k] : k \in DOMAIN crawled_pages } \cup
    { tasks[i].result.page : i \in { j \in DOMAIN tasks : tasks[j].result.kind = "page" } }

\* C1: in every state of a crawl, and when run has returned, the number of
\* collected pages is at most max_pages.
C1_PagesAtMostMaxPages ==
    /\ Len(crawled_pages) <= max_pages
    /\ Len(site_data.pages) <= max_pages

\* C1 witness: a batch was cut to the remaining page budget, every coroutine of
\* it fetched a page, and URLs are left in the frontier.
C1_Witness ==
    /\ cpc = "gather"
    /\ queue # <<>>
    /\ Len(tasks) < 2 * concurrency
    /\ Len(tasks) + Len(crawled_pages) = max_pages
    /\ \A i \in DOMAIN tasks : tasks[i].result.kind = "page"

\* C2: the crawl loop always halts: under fair scheduling run eventually
\* returns, whatever links the pages of the site carry.
C2_CrawlHalts == <>(cpc = "returned")

\* C2 witness: run has returned because max_pages was reached while the site
\* still had unvisited URLs in the frontier.
C2_Witness ==
    /\ cpc = "returned"
    /\ queue # <<>>
    /\ Len(crawled_pages) = max_pages
    /\ stats.total_queued > Len(crawled_pages)

\* C3: every normalized URL is fetched at most once in a crawl, and the visited
\* set only grows.
C3_FetchedAtMostOnce ==
    /\ [](\A n \in DOMAIN fetch_count : fetch_count[n] <= 1)
    /\ [][visited \subseteq visited']_vars

\* C3 witness: two entries of one batch normalize to the same URL; one is being
\* fetched while the other has been dropped by the dedup check.
C3_Witness ==
    \E i, j \in DOMAIN tasks :
        /\ i # j
        /\ Normalize(tasks[i].item.url) = Normalize(tasks[j].item.url)
        /\ tasks[i].pc = "fetch"
        /\ tasks[j].pc = "done"
        /\ tasks[j].result = NoneResult
        /\ fetch_count[tasks[i].norm] = 1

\* C4: among the completed pages sharing one non-empty HTML body, exactly one
\* page, the first whose fetch completed, lacks the duplicate flag and every
\* other page carries it.
C4_FirstWriterWins ==
    \A h \in Htmls \ {""} :
        LET same == { p \in CompletedPages : p.html = h }
        IN same # {} =>
             \E first \in same :
                 /\ ~first.is_duplicate_content
                 /\ \A p \in same \ {first} :
                        p.is_duplicate_content /\ p.order > first.order

\* C5: the number of coroutines past the semaphore never exceeds concurrency.
C5_InFlightAtMostConcurrency == Cardinality(InFlight) <= concurrency

\* C5 witness: a batch larger than concurrency, with concurrency coroutines
\* past the semaphore and another one waiting for it.
C5_Witness ==
    /\ Len(tasks) > concurrency
    /\ Cardinality(InFlight) = concurrency
    /\ \E i \in DOMAIN tasks : tasks[i].pc = "wait"

(***************************************************************************)
(* The audit pipeline: the Celery tasks of audit_tasks.py.  Every action   *)
(* is one execution of a task; its outcome is drawn from what the calls    *)
(* made by the task may do.                                                *)
(***************************************************************************)
\* A step of a task, for the history: the engine is "-" for the steps that do
\* not belong to an analysis engine.
Step(name) == [name |-> name, engine |-> "-"]
EngineStep(name, e) == [name |-> name, engine |-> e]

RunFullAuditMaxRetries == 1
CELERY_MAX_RETRIES == 3
RunEngineTaskMaxRetries == 2

\* self.retry(exc=...): the task is queued again while request.retries is
\* below max_retries; otherwise the exception is raised and the task fails.
Retry(task, max_retries) ==
    IF task.retries < max_retries
    THEN [task EXCEPT !.state = "queued", !.retries = @ + 1]
    ELSE [task EXCEPT !.state = "failed"]

\* run_full_audit: the status becomes crawling and the chain crawl ->
\* analysis -> finalize is dispatched; when that raises, the status becomes
\* failed and the task is retried.
RunFullAudit ==
    /\ full_task.state = "queued"
    /\ UNCHANGED <<crawlVars, scoreVars, callVars, rateVars, flowVars, sitemapVars>>
    /\ \E outcome \in {"dispatched", "raises"} :
         IF outcome = "dispatched"
         THEN /\ status' = "crawling"
              /\ full_task' = [full_task EXCEPT !.state = "done"]
              /\ crawl_task' = [crawl_task EXCEPT !.state = "queued"]
              /\ recorded' = recorded \cup {"started_at"}
              /\ UNCHANGED error_message
         ELSE /\ status' = "failed"
              /\ error_message' = TRUE
              /\ full_task' = Retry(full_task, RunFullAuditMaxRetries)
              /\ UNCHANGED <<crawl_task, recorded>>
    /\ UNCHANGED <<analysis_task, engine_tasks, finalize_task, events>>

\* AuditEngine.execute: an exception of run is caught and turned into a failed
\* AuditResult, which execute returns.
ExecuteResult(run_raises) == IF run_raises THEN "failed" ELSE "success"

\* What one execution of run_crawl_task may meet: nothing, the crawler's run
\* raising (execute turns it into a failed result), the soft time limit, an
\* exception of _persist_pages before its commit, or an exception of the
\* _update_audit_status that follows _persist_pages.
CrawlOutcomes == {"ok", "run_raises", "soft_timeout", "persist_error", "status_error"}

\* run_crawl_task: the crawler is executed, the pages are persisted and the
\* status becomes analyzing; SoftTimeLimitExceeded sets the status to failed;
\* any other exception of the task is retried, from the start of the task.
RunCrawlTask ==
    /\ crawl_task.state = "queued"
    /\ UNCHANGED <<crawlVars, scoreVars, callVars, rateVars, flowVars, sitemapVars>>
    /\ \E outcome \in CrawlOutcomes :
         CASE outcome \in {"ok", "run_raises"} ->
                /\ crawl_task' = [crawl_task EXCEPT
                                    !.state = "done",
                                    !.run_raised =
                                        ExecuteResult(outcome = "run_raises") = "failed"]
                /\ status' = "analyzing"
                /\ analysis_task' = "queued"
                /\ events' = events \o <<Step("crawl_start"), Step("crawl_returned"),
                                         Step("pages_persisted"),
                                         Step("status_analyzing")>>
                /\ recorded' = recorded \cup {"pages_crawled"}
                /\ UNCHANGED error_message
           [] outcome = "soft_timeout" ->
                /\ crawl_task' = [crawl_task EXCEPT !.state = "failed"]
                /\ status' = "failed"
                /\ error_message' = TRUE
                /\ events' = events \o <<Step("crawl_start"), Step("status_failed")>>
                /\ UNCHANGED <<analysis_task, recorded>>
           [] outcome = "persist_error" ->
                /\ crawl_task' = Retry(crawl_task, CELERY_MAX_RETRIES)
                /\ events' = events \o <<Step("crawl_start"), Step("crawl_returned")>>
                /\ UNCHANGED <<status, error_message, analysis_task, recorded>>
           [] outcome = "status_error" ->
                /\ crawl_task' = Retry(crawl_task, CELERY_MAX_RETRIES)
                /\ events' = events \o <<Step("crawl_start"), Step("crawl_returned"),
                                         Step("pages_persisted")>>
                /\ UNCHANGED <<status, error_message, analysis_task, recorded>>
    /\ UNCHANGED <<full_task, engine_tasks, finalize_task>>

\* run_analysis_engines up to result.get: one run_engine_task per analysis
\* engine is queued as the header of a chord.
DispatchEngines ==
    /\ analysis_task = "queued"
    /\ UNCHANGED <<crawlVars, scoreVars, callVars, rateVars, flowVars, sitemapVars>>
    /\ analysis_task' = "waiting"
    /\ engine_tasks' = [e \in ANALYSIS_ENGINES |->
                          [engine_tasks[e] EXCEPT !.state = "queued"]]
    /\ UNCHANGED <<status, error_message, full_task, crawl_task, finalize_task,
                   events, recorded>>

EngineOutcomes == {"ok", "run_raises", "soft_timeout", "persist_error"}

\* run_engine_task: the result of execute is persisted and returned, a failed
\* one included; SoftTimeLimitExceeded returns a failed result; any other
\* exception of the task is retried.
RunEngineTask(e) ==
    /\ engine_tasks[e].state = "queued"
    /\ UNCHANGED <<crawlVars, scoreVars, callVars, rateVars, flowVars, sitemapVars>>
    /\ \E outcome \in EngineOutcomes :
         LET t == [engine_tasks[e] EXCEPT !.runs = @ + 1]
         IN CASE outcome \in {"ok", "run_raises"} ->
                   engine_tasks' = [engine_tasks EXCEPT ![e] =
                       [t EXCEPT !.state = "done",
                                 !.result = ExecuteResult(outcome = "run_raises"),
                                 !.cause = IF outcome = "ok" THEN "none"
                                           ELSE "run_raised"]]
              [] outcome = "soft_timeout" ->
                   engine_tasks' = [engine_tasks EXCEPT ![e] =
                       [t EXCEPT !.state = "done", !.result = "failed",
                                 !.cause = "timeout"]]
              [] outcome = "persist_error" ->
                   engine_tasks' = [engine_tasks EXCEPT ![e] =
                       Retry(t, RunEngineTaskMaxRetries)]
    /\ events' = events \o
         (IF engine_tasks'[e].state = "done"
          THEN <<EngineStep("engine_start", e), EngineStep("engine_returned", e)>>
          ELSE <<EngineStep("engine_start", e)>>)
    /\ UNCHANGED <<status, error_message, full_task, crawl_task, analysis_task,
                   finalize_task, recorded>>

ChordSucceededIfAny == \E e \in ANALYSIS_ENGINES : engine_tasks[e].state = "done"

\* The chord callback runs only when every task of the header returned.
ChordSucceeded == \A e \in ANALYSIS_ENGINES : engine_tasks[e].state = "done"

\* result.get() in run_analysis_engines: when every engine task returned, the
\* chord callback collects the results and the chain goes on with
\* finalize_audit_task; when an engine task failed, get raises and the chain
\* stops.
JoinEngines ==
    /\ analysis_task = "waiting"
    /\ UNCHANGED <<crawlVars, scoreVars, callVars, rateVars, flowVars, sitemapVars>>
    /\ \A e \in ANALYSIS_ENGINES : engine_tasks[e].state \in {"done", "failed"}
    /\ IF ChordSucceeded
       THEN analysis_task' = "done" /\ finalize_task' = "queued"
       ELSE analysis_task' = "failed" /\ UNCHANGED finalize_task
    /\ UNCHANGED <<status, error_message, full_task, crawl_task, engine_tasks,
                   events, recorded>>

\* The two engines finalize_audit_task runs, one after the other; execute does
\* not raise.
FinalizeSteps ==
    <<Step("scoring_start"), Step("scoring_returned"),
      Step("prioritization_start"), Step("prioritization_returned")>>

\* The keyword arguments of _update_audit_status(audit_id, "complete", ...)
\* whose value is not None.  The metadata of a failed scoring result is empty,
\* so its .get("confidence_score") and .get("estimated_monthly_revenue_impact")
\* are None.
CompleteValues(scoring_status) ==
    {"overall_score", "overall_grade", "issues_found", "critical_issues",
     "completed_at"}
    \cup (IF scoring_status = "success"
          THEN {"confidence_score", "estimated_revenue_impact"} ELSE {})

\* finalize_audit_task: scoring and prioritization run through execute, the
\* final results are persisted and the status becomes complete; an exception
\* sets the status to failed.
FinalizeAudit ==
    /\ finalize_task = "queued"
    /\ UNCHANGED <<crawlVars, scoreVars, callVars, rateVars, flowVars, sitemapVars>>
    /\ \E outcome \in {"ok", "persist_error"}, scoring_raises \in BOOLEAN :
         IF outcome = "ok"
         THEN /\ status' = "complete"
              /\ recorded' = recorded \cup CompleteValues(ExecuteResult(scoring_raises))
              /\ finalize_task' = "done"
              /\ events' = events \o FinalizeSteps
                               \o <<Step("final_persisted"), Step("status_complete")>>
              /\ UNCHANGED error_message
         ELSE /\ status' = "failed"
              /\ error_message' = TRUE
              /\ finalize_task' = "failed"
              /\ events' = events \o FinalizeSteps \o <<Step("status_failed")>>
              /\ UNCHANGED recorded
    /\ UNCHANGED <<full_task, crawl_task, analysis_task, engine_tasks>>

AuditNext ==
    \/ RunFullAudit
    \/ RunCrawlTask
    \/ DispatchEngines
    \/ \E e \in ANALYSIS_ENGINES : RunEngineTask(e)
    \/ JoinEngines
    \/ FinalizeAudit

CrawlIdle ==
    /\ cpc = "idle"
    /\ max_pages = 1
    /\ max_depth = 0
    /\ concurrency = 1
    /\ robots = [parsed |-> FALSE, disallowed |-> {}]
    /\ queue = <<>>
    /\ visited = {}
    /\ fingerprints = {}
    /\ crawled_pages = <<>>
    /\ tasks = <<>>
    /\ sem = 0
    /\ stats = [total_queued |-> 0, total_crawled |-> 0,
                total_failed |-> 0, total_skipped |-> 0]
    /\ site_data = [pages |-> <<>>, crawl_stats |-> NoStats]
    /\ fetch_count = [n \in NormalizedRawUrls |-> 0]
    /\ raised = <<>>
    /\ root_links = {}

AuditInit ==
    /\ CrawlIdle
    /\ AuditIdle
    /\ RateIdle
    /\ FlowIdle
    /\ SitemapIdle
    /\ ScoringIdle
    /\ CallIdle

AuditSpec == AuditInit /\ [][AuditNext]_vars

(***************************************************************************)
(* Properties of the audit pipeline.                                       *)
(***************************************************************************)
AllowedTransitions ==
    { <<"pending", "crawling">>, <<"crawling", "analyzing">>,
      <<"analyzing", "complete">>, <<"pending", "failed">>,
      <<"crawling", "failed">>, <<"analyzing", "failed">> }

\* No task of the pipeline is queued or waiting: the workflow is over.
WorkflowOver ==
    /\ full_task.state # "queued"
    /\ crawl_task.state # "queued"
    /\ analysis_task \notin {"queued", "waiting"}
    /\ \A e \in ANALYSIS_ENGINES : engine_tasks[e].state # "queued"
    /\ finalize_task # "queued"

\* C6: the status changes only along pending -> crawling -> analyzing ->
\* complete or from a non-terminal status to failed; a complete or failed
\* status never changes again.
C6_StatusTransitions ==
    [][status' # status => <<status, status'>> \in AllowedTransitions]_vars

\* C7: once the crawl of an audit has failed (the crawler's run raised, or the
\* crawl task failed for good), the status is failed with error_message set.
C7_CrawlFailureFailsAudit ==
    (crawl_task.run_raised \/ crawl_task.state = "failed")
        => (status = "failed" /\ error_message)

\* C8: when the crawl succeeded and an analysis engine failed (its run raised,
\* it timed out, or its task exhausted its retries), the workflow ends with the
\* audit complete unless finalization itself failed.
C8_EngineFailureStillCompletes ==
    ( /\ WorkflowOver
      /\ crawl_task.state = "done"
      /\ ~crawl_task.run_raised
      /\ \E e \in ANALYSIS_ENGINES :
            engine_tasks[e].result = "failed" \/ engine_tasks[e].state = "failed"
      /\ finalize_task # "failed" )
        => status = "complete"

\* C10: a failed result caused by the engine's run raising is accepted only
\* after the engine has been re-run: at least one retry, at most two.
C10_RaisingEngineIsRetried ==
    \A e \in ANALYSIS_ENGINES :
        (engine_tasks[e].state = "done" /\ engine_tasks[e].cause = "run_raised")
            => (engine_tasks[e].runs >= 2 /\ engine_tasks[e].runs <= 3)

(***************************************************************************)
(* ScoringEngine.run.  Scores and weights are fixed-point numbers in       *)
(* hundredths: a score of 100.0 is 10000 and a weight of 0.20 is 20, so    *)
(* that round(x, 2) is rounding to the nearest integer.                    *)
(***************************************************************************)
WEIGHT_TECHNICAL == 20
WEIGHT_ON_PAGE == 15
MaxScore == 10000

\* CATEGORY_WEIGHTS.get(category, 0.0): competitor, international and local
\* have no entry.
CategoryWeight(category) ==
    CASE category = "technical" -> WEIGHT_TECHNICAL
      [] category = "on_page" -> WEIGHT_ON_PAGE
      [] OTHER -> 0

EngineStatuses == {"success", "failed", "skipped"}
Categories == {"technical", "on_page", "competitor"}
Scores == {0, 1, MaxScore}

AuditResults ==
    [status : EngineStatuses, category : Categories, score : Scores]

ContributesIgnoringStatus(result) ==
    CategoryWeight(result.category) # 0

\* The two `continue` statements of the loop: a failed result and a result
\* whose category has weight 0.0 are skipped.
Contributes(result) ==
    /\ result.status # "failed"
    /\ CategoryWeight(result.category) # 0

\* The loop over engine_results from index i on, accumulating
\* <<weighted_sum, total_weight>>.
RECURSIVE ScoreLoop(_, _, _, _)
ScoreLoop(results, i, weighted_sum, total_weight) ==
    IF i > Len(results)
    THEN <<weighted_sum, total_weight>>
    ELSE IF Contributes(results[i])
         THEN ScoreLoop(results, i + 1,
                        weighted_sum
                            + results[i].score * CategoryWeight(results[i].category),
                        total_weight + CategoryWeight(results[i].category))
         ELSE ScoreLoop(results, i + 1, weighted_sum, total_weight)

\* round(weighted_sum / total_weight, 2): the nearest hundredth; exactly half
\* way between two hundredths the float quotient may fall on either side.
RoundedQuotients(weighted_sum, total_weight) ==
    LET q == weighted_sum \div total_weight
        r == weighted_sum % total_weight
    IN  IF 2 * r < total_weight THEN {q}
        ELSE IF 2 * r > total_weight THEN {q + 1}
        ELSE {q, q + 1}

OverallScores(results) ==
    LET acc == ScoreLoop(results, 1, 0, 0)
    IN  IF acc[2] > 0 THEN RoundedQuotients(acc[1], acc[2]) ELSE {0}

ScoringRun ==
    /\ spc = "idle"
    /\ \E s \in OverallScores(engine_results) : overall_score' = s
    /\ spc' = "done"
    /\ UNCHANGED <<engine_results, crawlVars, auditVars, callVars, rateVars, flowVars, sitemapVars>>

ScoringInit ==
    /\ CrawlIdle
    /\ AuditIdle
    /\ RateIdle
    /\ FlowIdle
    /\ SitemapIdle
    /\ spc = "idle"
    /\ engine_results \in SeqsUpTo(AuditResults, MaxResults)
    /\ overall_score = 0
    /\ CallIdle

ScoringNext == ScoringRun

ScoringSpec == ScoringInit /\ [][ScoringNext]_vars

(***************************************************************************)
(* Properties of the overall score.                                        *)
(***************************************************************************)
NonFailed == {i \in DOMAIN engine_results : engine_results[i].status # "failed"}

RECURSIVE SumOver(_, _)
SumOver(I, f) ==
    IF I = {} THEN 0
    ELSE LET i == CHOOSE j \in I : TRUE
         IN  f[i] + SumOver(I \ {i}, f)

NonFailedWeight ==
    SumOver(NonFailed,
            [i \in DOMAIN engine_results |-> CategoryWeight(engine_results[i].category)])

NonFailedWeightedScore ==
    SumOver(NonFailed,
            [i \in DOMAIN engine_results |->
                engine_results[i].score * CategoryWeight(engine_results[i].category)])

Abs(x) == IF x < 0 THEN -x ELSE x

\* C9 (as stated): the overall score is exactly the weight-normalized mean of
\* the scores of the results that are not failed, within [0, 100], and 0 when
\* no result contributes.
C9_ExactWeightedMean ==
    spc = "done" =>
        /\ overall_score \in 0..MaxScore
        /\ IF NonFailedWeight = 0
           THEN overall_score = 0
           ELSE overall_score * NonFailedWeight = NonFailedWeightedScore

\* C9 (amended): the overall score is the weight-normalized mean of the scores
\* of the results that are not failed, rounded to two decimal places (so it is
\* within half a hundredth of the mean), within [0, 100], and 0 when no result
\* contributes.
C9_RoundedWeightedMean ==
    spc = "done" =>
        /\ overall_score \in 0..MaxScore
        /\ IF NonFailedWeight = 0
           THEN overall_score = 0
           ELSE 2 * Abs(overall_score * NonFailedWeight - NonFailedWeightedScore)
                    <= NonFailedWeight

C9_Witness ==
    /\ spc = "done"
    /\ \E i \in DOMAIN engine_results : engine_results[i].status = "failed"
    /\ NonFailedWeight > 0
    /\ NonFailedWeightedScore % NonFailedWeight # 0

(***************************************************************************)
(* AuditEngine.execute: the wrapper around an engine's run.                *)
(***************************************************************************)
None == [none |-> TRUE]
Some(x) == [none |-> FALSE, value |-> x]

\* ENGINE_NAME and CATEGORY of the engines.
EngineCategory(engine) ==
    CASE engine = "crawler" -> "crawlability"
      [] engine = "technical" -> "technical"
      [] engine = "onpage" -> "on_page"
      [] engine = "scoring" -> "technical"
      [] engine = "prioritization" -> "technical"

EngineNames == {"crawler", "technical", "onpage", "scoring", "prioritization"}

\* An AuditResult: the fields execute reads or writes.
MkResult(engine, st, category, score, grade, ms, msg) ==
    [engine_name |-> engine, status |-> st, category |-> category,
     score |-> score, grade |-> grade, execution_time_ms |-> ms,
     error_message |-> msg]

\* What run may do: return a result, or raise an exception.  Every exception the
\* engines and the worker raise derives from Exception, SoftTimeLimitExceeded
\* included.
ExceptionClasses == {"ValueError", "SoftTimeLimitExceeded"}
ExceptionMessages == {"", "boom"}
ElapsedMs == {3, 5}

RunReturns(engine) ==
    { [kind |-> "returns",
       result |-> MkResult(engine, st, EngineCategory(engine), sc, g, ms, None)] :
        st \in {"success", "partial"}, sc \in {0, MaxScore},
        g \in {"A", "F"}, ms \in {0, 5} }

RunRaises ==
    { [kind |-> "raises", cls |-> c, msg |-> m] :
        c \in ExceptionClasses, m \in ExceptionMessages }

RunOutcomes(engine) == RunReturns(engine) \cup RunRaises

CaughtAllButTimeout(cls) == cls # "SoftTimeLimitExceeded"

\* except Exception
Caught(cls) == cls \in ExceptionClasses

\* execute(site_data) of the given engine, run behaving as `outcome` and the
\* clock measuring `elapsed` milliseconds.
Execute(engine, outcome, elapsed) ==
    IF outcome.kind = "returns"
    THEN [kind |-> "returned",
          result |-> [outcome.result EXCEPT !.execution_time_ms = elapsed]]
    ELSE IF Caught(outcome.cls)
         THEN [kind |-> "returned",
               result |-> MkResult(engine, "failed", EngineCategory(engine),
                                   0, "F", elapsed, Some(outcome.msg))]
         ELSE [kind |-> "raised", cls |-> outcome.cls]

ExecuteCall ==
    /\ fpc = "called"
    /\ ret' = Execute(arg.engine, arg.outcome, arg.elapsed)
    /\ fpc' = "returned"
    /\ UNCHANGED <<arg, crawlVars, auditVars, scoreVars, rateVars, flowVars, sitemapVars>>

ExecuteInit ==
    /\ CrawlIdle
    /\ AuditIdle
    /\ RateIdle
    /\ FlowIdle
    /\ SitemapIdle
    /\ ScoringIdle
    /\ fpc = "called"
    /\ \E engine \in EngineNames :
         \E outcome \in RunOutcomes(engine), elapsed \in ElapsedMs :
           arg = [kind |-> "execute", engine |-> engine, outcome |-> outcome,
                  elapsed |-> elapsed]
    /\ ret = NoCall

ExecuteNext == ExecuteCall

ExecuteSpec == ExecuteInit /\ [][ExecuteNext]_vars

\* C11: execute never raises; when run raised, it returns a result with status
\* failed, score 0, grade F and error_message set; otherwise it returns run's
\* result, differing at most in execution_time_ms.
C11_ExecuteNeverRaises ==
    fpc = "returned" =>
        /\ ret.kind = "returned"
        /\ IF arg.outcome.kind = "raises"
           THEN /\ ret.result.status = "failed"
                /\ ret.result.score = 0
                /\ ret.result.grade = "F"
                /\ ret.result.error_message # None
                /\ ret.result.error_message.value = arg.outcome.msg
           ELSE /\ \A f \in DOMAIN ret.result \ {"execution_time_ms"} :
                      ret.result[f] = arg.outcome.result[f]
                /\ DOMAIN ret.result = DOMAIN arg.outcome.result
                /\ ret.result.execution_time_ms = arg.elapsed

C11_Witness ==
    /\ fpc = "returned"
    /\ arg.outcome.kind = "raises"
    /\ arg.outcome.cls = "SoftTimeLimitExceeded"
    /\ ret.kind = "returned"
    /\ ret.result.status = "failed"

(***************************************************************************)
(* The soft time limit during a crawl.  Celery raises SoftTimeLimitExceeded*)
(* from a signal handler, in whatever frame the worker is executing.       *)
(***************************************************************************)
\* Where the exception lands while run is in its BFS loop:
\*   "event_loop": in the event loop itself (waiting for I/O); it leaves
\*                 run_until_complete and reaches run_crawl_task;
\*   "run":        in the frame of run or of a coroutine it awaits directly;
\*                 execute catches it and returns a failed result.
\* (In the frame of a crawl_url coroutine it becomes that coroutine's result in
\* gather: TaskRaises.)
SoftTimeLimitLandings == {"event_loop", "run"}

\* run has no handler: the assignments to site_data.pages and
\* site_data.crawl_stats after the loop are not executed.
SoftTimeLimit ==
    /\ cpc \in {"loop", "gather"}
    /\ UNCHANGED <<auditVars, scoreVars, callVars, rateVars, flowVars, sitemapVars,
                   root_links>>
    /\ \E landing \in SoftTimeLimitLandings :
         cpc' = IF landing = "event_loop" THEN "timeout_propagated"
                ELSE "failed_result"
    /\ UNCHANGED <<max_pages, max_depth, concurrency, robots, queue, visited,
                   fingerprints, crawled_pages, tasks, sem, stats, site_data,
                   fetch_count,
                   raised>>

CrawlTimeoutNext ==
    \/ CrawlNext
    \/ SoftTimeLimit

CrawlTimeoutSpec == Init /\ [][CrawlTimeoutNext]_vars

\* C12: when the soft time limit interrupts a crawl that has already collected
\* pages, the crawl stage hands those pages on in site_data.pages and
\* crawl_stats is populated.
C12_TimeoutKeepsPages ==
    (cpc \in {"timeout_propagated", "failed_result"} /\ crawled_pages # <<>>)
        => (site_data.pages = crawled_pages /\ site_data.crawl_stats.populated)

(***************************************************************************)
(* Order of the stages within one audit, read from the history.            *)
(***************************************************************************)
\* Some step equal to s was executed before position i of the history.
Before(i, s) == \E j \in 1..(i - 1) : events[j] = s

\* C13: no analysis engine starts before the crawl has returned and its pages
\* are persisted; scoring starts only after every analysis engine has returned;
\* prioritization starts after scoring has returned; the status becomes complete
\* only after the final results are persisted.
C13_StagesOrdered ==
    \A i \in DOMAIN events :
        /\ events[i].name = "engine_start" =>
              /\ Before(i, Step("crawl_returned"))
              /\ Before(i, Step("pages_persisted"))
        /\ events[i].name = "scoring_start" =>
              \A e \in ANALYSIS_ENGINES : Before(i, EngineStep("engine_returned", e))
        /\ events[i].name = "prioritization_start" =>
              Before(i, Step("scoring_returned"))
        /\ events[i].name = "status_complete" =>
              Before(i, Step("final_persisted"))

C13_Witness ==
    /\ status = "complete"
    /\ \E e \in ANALYSIS_ENGINES : engine_tasks[e].runs > 1
    /\ crawl_task.retries > 0
    /\ \E i \in DOMAIN events : events[i].name = "status_complete"

(***************************************************************************)
(* The analysis engines and the SiteData they are given.  A page carries   *)
(* what the engines read: status_code, whether content_type holds          *)
(* "text/html", html, the number of <img> without alt in it, the number of *)
(* words of text_content, and the meta mapping.                            *)
(***************************************************************************)
EmptyMeta == [k \in {} |-> ""]
TitleMeta == [k \in {"title"} |-> "t"]

EnginePages ==
    [status_code : {200, 404}, is_html : BOOLEAN, html : {"", "doc"},
     imgs_no_alt : {0, 1}, words : {0, 300}, meta : {EmptyMeta, TitleMeta}]

\* str(n)
Str(n) == <<"str", n>>

\* meta[key] = value
SetItem(meta, key, value) ==
    [k \in DOMAIN meta \cup {key} |-> IF k = key THEN value ELSE meta[k]]

\* One iteration of the loop of OnPageAnalyzerEngine.run over a page that
\* passed the filter: a page without html is skipped; otherwise
\* images_missing_alt (when an image lacks alt) and word_count are stored in
\* page.meta.
OnPageVisit(page) ==
    IF page.html = "" THEN page
    ELSE LET m1 == IF page.imgs_no_alt > 0
                   THEN SetItem(page.meta, "images_missing_alt", Str(page.imgs_no_alt))
                   ELSE page.meta
         IN  [page EXCEPT !.meta = SetItem(m1, "word_count", Str(page.words))]

\* pages = [p for p in site_data.pages if p.status_code == 200 and
\* "text/html" in p.content_type]: the list is new, the pages are shared.
OnPageSelected(page) == page.status_code = 200 /\ page.is_html

\* site_data.pages after OnPageAnalyzerEngine.run.
OnPageRunPages(pages) ==
    [i \in DOMAIN pages |->
        IF OnPageSelected(pages[i]) THEN OnPageVisit(pages[i]) ELSE pages[i]]

\* site_data.pages after TechnicalSEOEngine.run, which only reads the pages.
TechnicalRunPages(pages) == pages

EngineRunPages(engine, pages) ==
    IF engine = "onpage" THEN OnPageRunPages(pages) ELSE TechnicalRunPages(pages)

EngineRunCall ==
    /\ fpc = "called"
    /\ ret' = [kind |-> "engine_run", pages |-> EngineRunPages(arg.engine, arg.pages)]
    /\ fpc' = "returned"
    /\ UNCHANGED <<arg, crawlVars, auditVars, scoreVars, rateVars, flowVars, sitemapVars>>

EngineRunInit ==
    /\ CrawlIdle
    /\ AuditIdle
    /\ RateIdle
    /\ FlowIdle
    /\ SitemapIdle
    /\ ScoringIdle
    /\ fpc = "called"
    /\ \E engine \in ANALYSIS_ENGINES, pages \in SeqsUpTo(EnginePages, MaxEnginePages) :
         arg = [kind |-> "engine_run", engine |-> engine, pages |-> pages]
    /\ ret = NoCall

EngineRunNext == EngineRunCall

EngineRunSpec == EngineRunInit /\ [][EngineRunNext]_vars

\* C14: running an analysis engine leaves the pages of the SiteData it was
\* given unchanged, the meta mapping of every page included.
C14_EnginesReadOnly ==
    fpc = "returned" => ret.pages = arg.pages

(***************************************************************************)
(* Prioritization.  impact_score and effort_score are fixed-point numbers  *)
(* in hundredths (70.0 is 7000, an effort of 2.0 is 200); a priority score *)
(* is in hundredths as well.                                               *)
(***************************************************************************)
Severities == {"critical", "high", "medium", "low", "info"}

\* SEVERITY_WEIGHTS, in units.
SeverityWeight(severity) ==
    CASE severity = "critical" -> 100
      [] severity = "high" -> 75
      [] severity = "medium" -> 50
      [] severity = "low" -> 25
      [] severity = "info" -> 0

\* TRAFFIC_POTENTIAL_BY_SEVERITY, in units.
TrafficPotential(severity) ==
    CASE severity = "critical" -> 80
      [] severity = "high" -> 60
      [] severity = "medium" -> 35
      [] severity = "low" -> 15
      [] severity = "info" -> 0

MkIssue(rule_id, severity, impact, effort) ==
    [rule_id |-> rule_id, severity |-> severity, impact_score |-> impact,
     effort_score |-> effort]

\* impact * 0.40 + traffic_potential * 0.25 + effort_ease * 0.20
\* + severity_score * 0.15 with effort_ease = (10.0 - effort_score) * 10.0,
\* exactly, in ten-thousandths.
PriorityExact(issue) ==
    issue.impact_score * 40
    + TrafficPotential(issue.severity) * 2500
    + (1000 - issue.effort_score) * 200
    + SeverityWeight(issue.severity) * 1500

TruncateHundredths(x) == x \div 100

\* round(priority, 2): ten-thousandths to the nearest hundredth.  With inputs
\* in hundredths the exact value is never half way between two hundredths.
RoundHundredths(x) == (x + 50) \div 100

\* calculate_priority_score(issue), in hundredths.
CalculatePriorityScore(issue) == RoundHundredths(PriorityExact(issue))

ImpactScores == {0, 3334, 7000, 9000, MaxScore}
EffortScores == {0, 200, 500, 800, 1000}

PriorityCall ==
    /\ fpc = "called"
    /\ ret' = [kind |-> "priority", score |-> CalculatePriorityScore(arg.issue)]
    /\ fpc' = "returned"
    /\ UNCHANGED <<arg, crawlVars, auditVars, scoreVars, rateVars, flowVars, sitemapVars>>

PriorityInit ==
    /\ CrawlIdle
    /\ AuditIdle
    /\ RateIdle
    /\ FlowIdle
    /\ SitemapIdle
    /\ ScoringIdle
    /\ fpc = "called"
    /\ \E sev \in Severities, impact \in ImpactScores, effort \in EffortScores :
         arg = [kind |-> "priority",
                issue |-> MkIssue("tech-http-pages", sev, impact, effort)]
    /\ ret = NoCall

PriorityNext == PriorityCall

PrioritySpec == PriorityInit /\ [][PriorityNext]_vars

IssueA == MkIssue("tech-http-pages", "high", 7000, 200)
IssueB == MkIssue("tech-http-pages", "medium", 9000, 800)

\* The worked example: A (high, impact 70, effort 2) scores 70.25, B (medium,
\* impact 90, effort 8) scores 56.25, so A is ranked above B.
ExampleScores ==
    /\ arg.issue = IssueA => ret.score = 7025
    /\ arg.issue = IssueB => ret.score = 5625
    /\ CalculatePriorityScore(IssueA) > CalculatePriorityScore(IssueB)

\* C16 (as stated): the priority score equals 0.40 impact + 0.25 traffic
\* potential + 0.20 (10 - effort) 10 + 0.15 severity weight exactly, and the
\* worked example holds.
C16_PriorityExactFormula ==
    fpc = "returned" =>
        /\ ret.score * 100 = PriorityExact(arg.issue)
        /\ ExampleScores

\* C16 (amended): the priority score is that weighted sum rounded to two
\* decimal places (within half a hundredth of it), and the worked example
\* holds.
C16_PriorityRoundedFormula ==
    fpc = "returned" =>
        /\ 2 * Abs(ret.score * 100 - PriorityExact(arg.issue)) <= 100
        /\ ExampleScores

C16_Witness ==
    /\ fpc = "returned"
    /\ arg.issue = IssueA
    /\ ret.score = 7025

(***************************************************************************)
(* PrioritizationEngine.run.                                               *)
(***************************************************************************)
MaxRecommendations == 50

\* Rule ids of the engines, in lexicographic order of their text.
RuleIdsInOrder == <<"onpage-missing-title", "tech-http-pages">>

RuleIndex(rule_id) == CHOOSE i \in DOMAIN RuleIdsInOrder : RuleIdsInOrder[i] = rule_id

\* rule id x is before or equal to y in lexicographic order
RuleIdLeq(x, y) == RuleIndex(x) <= RuleIndex(y)

PrioritizedIssues ==
    { MkIssue(RuleIdsInOrder[i], IssueA.severity, IssueA.impact_score,
              IssueA.effort_score) : i \in DOMAIN RuleIdsInOrder }
    \cup
    { MkIssue(RuleIdsInOrder[i], IssueB.severity, IssueB.impact_score,
              IssueB.effort_score) : i \in DOMAIN RuleIdsInOrder }

\* all_issues: the issues of every engine result, in the order of the results.
RECURSIVE CollectIssues(_)
CollectIssues(results) ==
    IF results = <<>> THEN <<>>
    ELSE Head(results) \o CollectIssues(Tail(results))

\* (issue, calculate_priority_score(issue))
Scored(issue) == [issue |-> issue, priority_score |-> CalculatePriorityScore(issue)]

\* Inserting x into a list sorted by descending score, after every element
\* whose score is at least that of x.
InsertDescending(sorted, x) ==
    LET before == SelectSeq(sorted, LAMBDA y : y.priority_score >= x.priority_score)
        after == SelectSeq(sorted, LAMBDA y : y.priority_score < x.priority_score)
    IN  before \o <<x>> \o after

\* scored_issues.sort(key=lambda x: x[1], reverse=True): the sort is stable,
\* elements with equal scores keep the order they had.
RECURSIVE SortDescending(_)
SortDescending(scored) ==
    IF scored = <<>> THEN <<>>
    ELSE InsertDescending(SortDescending(SubSeq(scored, 1, Len(scored) - 1)),
                          scored[Len(scored)])

\* PrioritizationEngine.run: the sorted scored issues cut to the first 50, and
\* the recommendation built from each with its rank.
Prioritize(results) ==
    LET all_issues == CollectIssues(results)
        scored_issues == SortDescending([i \in DOMAIN all_issues |-> Scored(all_issues[i])])
        top == SubSeq(scored_issues, 1, Min(MaxRecommendations, Len(scored_issues)))
    IN  [kind |-> "prioritize",
         issues |-> all_issues,
         scored |-> top,
         recommendations |->
            [rank \in DOMAIN top |->
                [issue_id |-> top[rank].issue.rule_id, priority_rank |-> rank]]]

PrioritizeCall ==
    /\ fpc = "called"
    /\ ret' = Prioritize(arg.results)
    /\ fpc' = "returned"
    /\ UNCHANGED <<arg, crawlVars, auditVars, scoreVars, rateVars, flowVars, sitemapVars>>

PrioritizeInit ==
    /\ CrawlIdle
    /\ AuditIdle
    /\ RateIdle
    /\ FlowIdle
    /\ SitemapIdle
    /\ ScoringIdle
    /\ fpc = "called"
    /\ \E results \in [1..2 -> SeqsUpTo(PrioritizedIssues, MaxIssues)] :
         arg = [kind |-> "prioritize", results |-> results]
    /\ ret = NoCall

PrioritizeNext == PrioritizeCall

PrioritizeSpec == PrioritizeInit /\ [][PrioritizeNext]_vars

\* The recommendations have ranks 1..N in list order and the priority scores
\* do not increase with the rank.
RanksDenseAndDescending ==
    /\ Len(ret.recommendations) = Min(MaxRecommendations, Len(ret.issues))
    /\ \A i \in DOMAIN ret.recommendations :
          /\ ret.recommendations[i].priority_rank = i
          /\ ret.recommendations[i].issue_id = ret.scored[i].issue.rule_id
    /\ \A i, j \in DOMAIN ret.scored :
          i < j => ret.scored[i].priority_score >= ret.scored[j].priority_score

\* C15: the recommendations have ranks exactly 1..N in list order, priority
\* scores descending with the rank, and two issues with equal priority score
\* are ordered by rule id in lexicographic order.
C15_RanksDenseTiesByRuleId ==
    fpc = "returned" =>
        /\ RanksDenseAndDescending
        /\ \A i, j \in DOMAIN ret.scored :
              (i < j /\ ret.scored[i].priority_score = ret.scored[j].priority_score)
                  => RuleIdLeq(ret.scored[i].issue.rule_id, ret.scored[j].issue.rule_id)

(***************************************************************************)
(* The issues emitted by the crawler, the technical engine and the on-page *)
(* engine.  Every check collects the list of pages it matches; a page is   *)
(* identified by its position, and page.url by the same number.            *)
(***************************************************************************)
AffectedUrlsCap == 50
HstsSampleSize == 10

NoSlice(xs, n) == xs

\* xs[:n]
Slice(xs, n) == SubSeq(xs, 1, Min(n, Len(xs)))

\* Rule ids of the checks of the form
\*   if matched: Issue(affected_urls=[p.url for p in matched[:50]],
\*                     affected_count=len(matched))
SlicedRules ==
    { "crawl-4xx-pages", "crawl-5xx-pages", "crawl-duplicate-content",
      "crawl-missing-canonical", "crawl-canonical-mismatch", "crawl-slow-pages",
      "tech-http-pages", "tech-mixed-content", "tech-redirect-chains",
      "tech-xrobots-noindex", "tech-meta-noindex", "tech-missing-pagination-rel",
      "onpage-missing-title", "onpage-duplicate-title", "onpage-short-title",
      "onpage-long-title", "onpage-missing-meta-description",
      "onpage-duplicate-meta-description", "onpage-missing-h1",
      "onpage-multiple-h1", "onpage-missing-alt-text", "onpage-thin-content",
      "onpage-long-urls", "onpage-uppercase-urls" }

EmittedIssue(rule_id, urls, count) ==
    [rule_id |-> rule_id, affected_urls |-> urls, affected_count |-> count]

SlicedIssues(rule_id, matched) ==
    IF matched = <<>> THEN <<>>
    ELSE <<EmittedIssue(rule_id, Slice(matched, AffectedUrlsCap), Len(matched))>>

\* _check_www_consistency
WwwIssues(www_urls, nonwww_urls) ==
    IF www_urls # <<>> /\ nonwww_urls # <<>>
    THEN <<EmittedIssue("tech-www-consistency",
                        Slice(www_urls \o nonwww_urls, AffectedUrlsCap),
                        Len(www_urls) + Len(nonwww_urls))>>
    ELSE <<>>

\* if not site_data.robots_txt: the root URL (0) alone is affected.
RobotsTxtIssues(robots_txt_empty) ==
    IF robots_txt_empty
    THEN <<EmittedIssue("tech-missing-robots-txt", <<0>>, 1)>>
    ELSE <<>>

\* _check_security_headers: the sample is the first 10 pages with status 200,
\* no_hsts the https pages of the sample without the header.
HstsIssues(ok_pages, no_hsts_flags) ==
    LET sample == Slice(ok_pages, HstsSampleSize)
        no_hsts == SelectSeq(sample, LAMBDA u : no_hsts_flags[u])
    IN  IF sample = <<>> THEN <<>>
        ELSE IF 2 * Len(no_hsts) > Len(sample)
             THEN <<EmittedIssue("tech-missing-hsts", no_hsts, Len(no_hsts))>>
             ELSE <<>>

\* The pages 1..n, as the list a check collected.
PagesUpTo(n) == [i \in 1..n |-> i]

\* The issues of one check on the given input.
Emit(a) ==
    CASE a.check = "sliced" -> SlicedIssues(a.rule_id, PagesUpTo(a.n))
      [] a.check = "www" ->
            WwwIssues(PagesUpTo(a.n), [i \in 1..a.m |-> a.n + i])
      [] a.check = "robots" -> RobotsTxtIssues(a.n = 0)
      [] a.check = "hsts" ->
            HstsIssues(PagesUpTo(a.n), [u \in 1..a.n |-> u <= a.m])

EmitCall ==
    /\ fpc = "called"
    /\ ret' = [kind |-> "emit", issues |-> Emit(arg)]
    /\ fpc' = "returned"
    /\ UNCHANGED <<arg, crawlVars, auditVars, scoreVars, rateVars, flowVars, sitemapVars>>

EmitArgs ==
    { [kind |-> "emit", check |-> "sliced", rule_id |-> r, n |-> n, m |-> 0] :
        r \in SlicedRules, n \in 0..MaxAffected }
    \cup
    { [kind |-> "emit", check |-> c, rule_id |-> "-", n |-> n, m |-> m] :
        c \in {"www", "hsts"}, n \in 0..MaxAffected, m \in 0..MaxAffected }
    \cup
    { [kind |-> "emit", check |-> "robots", rule_id |-> "-", n |-> n, m |-> 0] :
        n \in 0..1 }

EmitInit ==
    /\ CrawlIdle
    /\ AuditIdle
    /\ RateIdle
    /\ FlowIdle
    /\ SitemapIdle
    /\ ScoringIdle
    /\ fpc = "called"
    /\ arg \in EmitArgs
    /\ ret = NoCall

EmitNext == EmitCall

EmitSpec == EmitInit /\ [][EmitNext]_vars

\* C17: every emitted issue has at least one affected URL and at most
\* min(50, affected_count) of them.
C17_AffectedUrlsBounded ==
    fpc = "returned" =>
        \A i \in DOMAIN ret.issues :
            /\ 1 <= Len(ret.issues[i].affected_urls)
            /\ Len(ret.issues[i].affected_urls)
                  <= Min(AffectedUrlsCap, ret.issues[i].affected_count)

C17_Witness ==
    /\ fpc = "returned"
    /\ \E i \in DOMAIN ret.issues :
          /\ ret.issues[i].affected_count > AffectedUrlsCap
          /\ Len(ret.issues[i].affected_urls) = AffectedUrlsCap

(***************************************************************************)
(* robots.txt that could not be fetched.                                   *)
(***************************************************************************)
\* C18: when robots.txt of the root host could not be fetched, or came with a
\* status other than 200, can_fetch allows every URL of that host, so the crawl
\* skips none of them for robots: the root URL, for one, is fetched.
C18_RobotsFailureAllowsAll ==
    (cpc # "init" /\ ~robots.parsed) =>
        /\ \A n \in NormalizedRawUrls : n.labels = RootDomain => CanFetch(n)
        /\ cpc = "returned" => fetch_count[Normalize(RootUrl)] >= 1

(***************************************************************************)
(* URLNormalizer.normalize(url, base_url) as a function of both arguments. *)
(***************************************************************************)
\* A reference without scheme and host that starts with "/": "/x?id=1#frag".
MkRef(segs, trail, query, frag) ==
    [relative |-> TRUE, segs |-> segs, trail |-> trail, query |-> query,
     frag |-> frag]

IsRef(u) == "relative" \in DOMAIN u

\* urljoin(base_url, url): an absolute URL is kept; a reference starting with
\* "/" takes scheme and host from the base, as the base writes them.
Resolve(u, b) ==
    IF IsRef(u)
    THEN MkUrl(b.scheme, b.labels, b.upper, u.segs, u.trail, u.query, u.frag)
    ELSE u

NormalizeAgainst(u, b) == Normalize(Resolve(u, b))

NormalizePaths == { <<>>, <<"x">>, <<"f.pdf">>, <<"a", "f.pdf">> }
NormalizeQueries ==
    { <<>>, <<"utm_source", "id">>, <<"b", "a", "b">>, <<"utm_id", "ref">> }

\* A path without segments is "/": it has no trailing slash of its own.
NormalizeInputs ==
    { MkUrl(sc, h, up, p, t, q, f) :
        sc \in {"https", "http", "mailto"},
        h \in {RootDomain, <<"sub", "ex", "com">>},
        up \in BOOLEAN, p \in NormalizePaths, t \in BOOLEAN,
        q \in NormalizeQueries, f \in BOOLEAN }
    \cup
    { MkRef(p, t, q, f) :
        p \in NormalizePaths, t \in BOOLEAN, q \in NormalizeQueries,
        f \in BOOLEAN }

WellFormedInput(u) == u.segs = <<>> => ~u.trail

NormalizeBases == { RootUrl, [RootUrl EXCEPT !.upper = TRUE] }

\* normalize(u, b), and normalize applied again to an accepted result.
NormalizeCall ==
    /\ fpc = "called"
    /\ LET first == NormalizeAgainst(arg.url, arg.base)
       IN  ret' = [kind |-> "normalize",
                   first |-> first,
                   second |-> IF first = Reject THEN Reject
                              ELSE NormalizeAgainst(first, arg.base)]
    /\ fpc' = "returned"
    /\ UNCHANGED <<arg, crawlVars, auditVars, scoreVars, rateVars, flowVars, sitemapVars>>

NormalizeInit ==
    /\ CrawlIdle
    /\ AuditIdle
    /\ RateIdle
    /\ FlowIdle
    /\ SitemapIdle
    /\ ScoringIdle
    /\ fpc = "called"
    /\ \E u \in NormalizeInputs, b \in NormalizeBases :
         /\ WellFormedInput(u)
         /\ arg = [kind |-> "normalize", url |-> u, base |-> b]
    /\ ret = NoCall

NormalizeNext == NormalizeCall

NormalizeSpec == NormalizeInit /\ [][NormalizeNext]_vars

\* C19: normalization is idempotent on accepted URLs: normalizing an accepted
\* result again returns it unchanged.
C19_NormalizeIdempotent ==
    (fpc = "returned" /\ ret.first # Reject) => ret.second = ret.first

\* The keys the code removes that remain in a query.
RemainingIn(keys, q) == { i \in DOMAIN q : q[i] \in keys }

\* How often key k occurs in query q.
Occurrences(k, q) == Cardinality({ i \in DOMAIN q : q[i] = k })

QueryKeys == { "utm_source", "utm_id", "ref", "id", "a", "b" }

\* Every key starting with "utm_", with ref, fbclid and gclid.
UtmStarTrackingKeys == IGNORED_PARAMS \cup {"utm_id"}

ExampleInput ==
    [kind |-> "normalize",
     url |-> MkRef(<<"x">>, FALSE, <<"utm_source", "id">>, TRUE),
     base |-> [RootUrl EXCEPT !.upper = TRUE]]

ExampleOutput == MkUrl("https", RootDomain, FALSE, <<"x">>, FALSE, <<"id">>, FALSE)

\* What C20 says of an accepted result, for a given tracking set and a given
\* treatment of the trailing slash.
NormalizedAsStated(tracking, trail) ==
    LET r == Resolve(arg.url, arg.base)
    IN  /\ ret.first.scheme = r.scheme
        /\ ret.first.labels = r.labels
        /\ ~ret.first.upper
        /\ ret.first.segs = r.segs
        /\ ret.first.trail = trail
        /\ ~ret.first.frag
        /\ RemainingIn(tracking, ret.first.query) = {}
        /\ \A k \in QueryKeys \ tracking :
              Occurrences(k, ret.first.query) = Occurrences(k, r.query)
        /\ arg = ExampleInput => ret.first = ExampleOutput

\* C20 (as stated): an accepted result is u resolved against b with scheme and
\* host lowercased, the fragment removed, every utm_* key and ref, fbclid,
\* gclid removed, every other key kept, and nothing else changed.
C20_NormalizeAsStated ==
    (fpc = "returned" /\ ret.first # Reject) =>
        NormalizedAsStated(UtmStarTrackingKeys, Resolve(arg.url, arg.base).trail)

\* C20 (amended): the keys removed are exactly those of IGNORED_PARAMS
\* (utm_source, utm_medium, utm_campaign, utm_content, utm_term, ref, fbclid,
\* gclid), and the trailing slash of the path is removed as well.
C20_NormalizeResult ==
    (fpc = "returned" /\ ret.first # Reject) =>
        NormalizedAsStated(IGNORED_PARAMS, FALSE)

C20_Witness ==
    /\ fpc = "returned"
    /\ arg = ExampleInput
    /\ ret.first = ExampleOutput

(***************************************************************************)
(* RateLimiter (crawler/engine.py).  Token counts are integers in units of *)
(* 1/TokenUnit of a token, time is in ticks, and the rate is in token      *)
(* units per tick, so that elapsed * rate is computed exactly.             *)
(***************************************************************************)
TokenUnit == 2
MaxRate == 2
MaxCapacity == 4
MaxTime == 3
NumCallers == 3

Callers == 1..NumCallers

\* min(self.max_tokens, self.tokens + elapsed * self.rate)
Refill(l, t) == Min(l.max_tokens, l.tokens + (t - l.last_refill) * l.rate)

\* Faulty variant of Suspends: the last whole token is not handed out.
SuspendsAtOne(t) == t <= TokenUnit

\* if self.tokens < 1
Suspends(t) == t < TokenUnit

\* wait_time = (1 - self.tokens) / self.rate, as the fraction num / den ticks
WaitTime(l, t) == [num |-> TokenUnit - t, den |-> l.rate]

\* Faulty variant of LockFree: the lock never makes a caller wait.
LockNeverHeld(c) == TRUE

\* asyncio.Lock.acquire takes the lock at once when it is not held and no
\* coroutine waits for it; a woken waiter takes it when it is first in line.
LockFree(c) ==
    /\ ~lock.locked
    /\ \/ lock.waiters = <<>>
       \/ Head(lock.waiters) = c

Unqueued(c) == SelectSeq(lock.waiters, LAMBDA w : w # c)

\* The body of "async with self._lock" up to the await or to the end of the
\* block: refill, then either start to sleep (keeping the lock) or take one
\* token (leaving the block, which releases the lock).
LockedBlock(c) ==
    LET refilled == Refill(limiter, now)
        call == [caller |-> c, at |-> now, before |-> limiter.tokens,
                 refilled |-> refilled]
    IN IF Suspends(refilled)
       THEN /\ limiter' = [limiter EXCEPT !.tokens = refilled, !.last_refill = now]
            /\ lock' = [locked |-> TRUE, waiters |-> Unqueued(c)]
            /\ callers' = [callers EXCEPT ![c] = "sleeping"]
            /\ calls' = Append(calls, call @@ [suspended |-> TRUE,
                                 wait |-> WaitTime(limiter, refilled),
                                 after |-> refilled, finished |-> FALSE,
                                 returned_at |-> now])
       ELSE /\ limiter' = [limiter EXCEPT !.tokens = refilled - TokenUnit,
                                          !.last_refill = now]
            /\ lock' = [locked |-> FALSE, waiters |-> Unqueued(c)]
            /\ callers' = [callers EXCEPT ![c] = "returned"]
            /\ calls' = Append(calls, call @@ [suspended |-> FALSE,
                                 wait |-> [num |-> 0, den |-> limiter.rate],
                                 after |-> refilled - TokenUnit,
                                 finished |-> TRUE, returned_at |-> now])

\* A coroutine calls acquire(): it enters the locked block at once, or waits
\* for the lock behind the coroutines already waiting.
Acquire(c) ==
    /\ callers[c] = "idle"
    /\ IF LockFree(c)
       THEN LockedBlock(c)
       ELSE /\ lock' = [lock EXCEPT !.waiters = Append(@, c)]
            /\ callers' = [callers EXCEPT ![c] = "lock_wait"]
            /\ UNCHANGED <<limiter, calls>>
    /\ UNCHANGED <<now, crawlVars, auditVars, scoreVars, callVars, flowVars, sitemapVars>>

\* The lock is handed to the coroutine that waited longest.
LockGranted(c) ==
    /\ callers[c] = "lock_wait"
    /\ LockFree(c)
    /\ LockedBlock(c)
    /\ UNCHANGED <<now, crawlVars, auditVars, scoreVars, callVars, flowVars, sitemapVars>>

\* asyncio.sleep(wait_time) returns once wait_time has passed; then
\* self.tokens = 0 and the block is left.
SleepDone(c) ==
    /\ callers[c] = "sleeping"
    /\ \E i \in 1..Len(calls) :
         /\ calls[i].caller = c
         /\ (now - calls[i].at) * calls[i].wait.den >= calls[i].wait.num
         /\ calls' = [calls EXCEPT ![i].finished = TRUE, ![i].after = 0,
                                   ![i].returned_at = now]
    /\ limiter' = [limiter EXCEPT !.tokens = 0]
    /\ lock' = [lock EXCEPT !.locked = FALSE]
    /\ callers' = [callers EXCEPT ![c] = "returned"]
    /\ UNCHANGED <<now, crawlVars, auditVars, scoreVars, callVars, flowVars, sitemapVars>>

\* Time passes.
Tick ==
    /\ now < MaxTime
    /\ now' = now + 1
    /\ UNCHANGED <<limiter, lock, callers, calls, crawlVars, auditVars,
                   scoreVars, callVars, flowVars, sitemapVars>>

\* RateLimiter(rate, max_tokens): __post_init__ fills the bucket.
RateLimiterInit ==
    /\ CrawlIdle
    /\ AuditIdle
    /\ ScoringIdle
    /\ CallIdle
    /\ FlowIdle
    /\ SitemapIdle
    /\ \E r \in 1..MaxRate, m \in 1..MaxCapacity :
         limiter = [rate |-> r, max_tokens |-> m, tokens |-> m, last_refill |-> 0]
    /\ lock = [locked |-> FALSE, waiters |-> <<>>]
    /\ now = 0
    /\ callers = [c \in Callers |-> "idle"]
    /\ calls = <<>>

RateLimiterNext ==
    \/ \E c \in Callers : Acquire(c)
    \/ \E c \in Callers : LockGranted(c)
    \/ \E c \in Callers : SleepDone(c)
    \/ Tick

RateLimiterSpec == RateLimiterInit /\ [][RateLimiterNext]_vars

\* The whole tokens of a full bucket.
WholeTokens == limiter.max_tokens \div TokenUnit

\* C21: starting from the full bucket, the first c calls of acquire made
\* before any time has passed return without suspending and each leaves fewer
\* tokens than it found; the call after them suspends, for (1 - tokens) / rate.
C21_BurstThenSuspend ==
    \A i \in 1..Len(calls) :
        calls[i].at = 0 =>
            /\ i <= WholeTokens =>
                    /\ ~calls[i].suspended
                    /\ calls[i].after < calls[i].before
            /\ i = WholeTokens + 1 =>
                    /\ calls[i].suspended
                    /\ calls[i].wait.den = limiter.rate
                    /\ calls[i].wait.num =
                         TokenUnit - (limiter.max_tokens - WholeTokens * TokenUnit)

\* A bucket of two tokens: two calls were served at once and the third sleeps.
C21_Witness ==
    /\ limiter.max_tokens = 2 * TokenUnit
    /\ Len(calls) = 3
    /\ \A i \in 1..3 : calls[i].at = 0
    /\ calls[3].suspended
    /\ ~calls[1].suspended
    /\ ~calls[2].suspended

\* C22: calls of acquire on one bucket are serialized: at most one caller is
\* inside the locked block, also while that caller sleeps, every call enters
\* the block only after the calls before it have left it, and a call that
\* enters with no time passed finds the tokens its predecessor left.
C22_AcquireSerialized ==
    /\ Cardinality({c \in Callers : callers[c] = "sleeping"}) <= 1
    /\ (\E c \in Callers : callers[c] = "sleeping") <=> lock.locked
    /\ \A i \in 1..Len(calls) :
         /\ i < Len(calls) => calls[i].finished
         /\ i > 1 => calls[i].before = calls[i - 1].after
         /\ ~calls[i].suspended => calls[i].after = calls[i].refilled - TokenUnit

\* One caller sleeps inside the block while the two others wait for the lock.
C22_Witness ==
    /\ \E c \in Callers : callers[c] = "sleeping"
    /\ Len(lock.waiters) = 2

(***************************************************************************)
(* Further properties of the crawl.                                        *)
(***************************************************************************)
CrawlStatsKeys == {"total_crawled", "total_failed", "total_skipped", "pages_per_second"}

\* The raised coroutines whose batch has been collected.
CollectedRaised ==
    Len(raised) - Cardinality({i \in DOMAIN tasks : tasks[i].result.kind = "exception"})

\* C23: when per-URL tasks raise, the crawl still runs to the end, each raised
\* task is counted once in total_failed and adds no page, and crawl_stats holds
\* total_crawled, total_failed, total_skipped and pages_per_second.
C23_RaisedTasksCounted ==
    /\ [](stats.total_failed = CollectedRaised)
    /\ [](\A i \in 1..Len(crawled_pages) :
            \A j \in 1..Len(raised) : crawled_pages[i].url # raised[j])
    /\ [](cpc = "returned" =>
            /\ CrawlStatsKeys \subseteq DOMAIN site_data.crawl_stats
            /\ site_data.crawl_stats.total_failed = Len(raised)
            /\ site_data.crawl_stats.total_crawled = stats.total_crawled
            /\ site_data.crawl_stats.total_skipped = stats.total_skipped
            /\ site_data.pages = crawled_pages)
    /\ (raised # <<>>) ~> (cpc = "returned")

\* A finished crawl in which one task raised and another produced a page.
C23_Witness ==
    /\ cpc = "returned"
    /\ Len(raised) = 1
    /\ Len(site_data.pages) = 1
    /\ site_data.crawl_stats.total_failed = 1

(***************************************************************************)
(* The Audit row of a complete audit.                                      *)
(***************************************************************************)
\* C24: whenever an audit's status is complete, overall_score, overall_grade,
\* confidence_score, estimated_revenue_impact, issues_found, critical_issues,
\* completed_at and duration_seconds have all been recorded for it.
C24_CompleteAuditFullyRecorded ==
    status = "complete" =>
        {"overall_score", "overall_grade", "confidence_score",
         "estimated_revenue_impact", "issues_found", "critical_issues",
         "completed_at", "duration_seconds"} \subseteq recorded

(***************************************************************************)
(* CrawlerEngine._analyze_crawl_issues.                                    *)
(***************************************************************************)
MaxAnalyzedPages == 2

StatusCodes == {0, 200, 399, 400, 404, 499, 500}

\* What the checks other than the status checks read of a page:
\* meta["is_duplicate_content"], canonical_url and load_time_ms > 5000.
PageTraits ==
    { [dup |-> FALSE, canonical |-> "self", slow |-> FALSE],
      [dup |-> TRUE, canonical |-> "none", slow |-> TRUE],
      [dup |-> FALSE, canonical |-> "other", slow |-> FALSE] }

AnalyzedPages == { [status_code |-> s, traits |-> t] : s \in StatusCodes, t \in PageTraits }

\* The pages of the argument, each with its own URL.
WithUrls(pages) ==
    [i \in DOMAIN pages |->
        [url |-> i, status_code |-> pages[i].status_code, traits |-> pages[i].traits]]

\* Faulty variant of Is4xx: the upper end of the range is included.
Is4xxUpTo500(p) == 400 <= p.status_code /\ p.status_code <= 500

\* 400 <= p.status_code < 500
Is4xx(p) == 400 <= p.status_code /\ p.status_code < 500

Is5xx(p) == p.status_code >= 500
IsDuplicate(p) == p.traits.dup
NoCanonical(p) == p.status_code = 200 /\ p.traits.canonical = "none"
CanonicalMismatch(p) == p.traits.canonical = "other" /\ p.status_code = 200
IsSlow(p) == p.traits.slow /\ p.status_code = 200

UrlsOf(matched) == [i \in DOMAIN matched |-> matched[i].url]

\* if matched: issues.append(Issue(...)); the impact score is in hundredths.
CrawlIssue(rule_id, severity, matched, cap, per_page) ==
    IF matched = <<>> THEN <<>>
    ELSE <<[rule_id |-> rule_id, severity |-> severity,
            affected_urls |-> Slice(UrlsOf(matched), AffectedUrlsCap),
            affected_count |-> Len(matched),
            impact_score |-> Min(cap, Len(matched) * per_page)]>>

AnalyzeCrawlIssues(pages) ==
    CrawlIssue("crawl-4xx-pages", "high", SelectSeq(pages, Is4xx), 10000, 200)
    \o CrawlIssue("crawl-5xx-pages", "critical", SelectSeq(pages, Is5xx), 10000, 300)
    \o CrawlIssue("crawl-duplicate-content", "medium",
                  SelectSeq(pages, IsDuplicate), 8000, 150)
    \o CrawlIssue("crawl-missing-canonical", "medium",
                  SelectSeq(pages, NoCanonical), 6000, 50)
    \o CrawlIssue("crawl-canonical-mismatch", "medium",
                  SelectSeq(pages, CanonicalMismatch), 7000, 100)
    \o CrawlIssue("crawl-slow-pages", "high", SelectSeq(pages, IsSlow), 8000, 200)

AnalyzeCall ==
    /\ fpc = "called"
    /\ ret' = [kind |-> "analyze", issues |-> AnalyzeCrawlIssues(WithUrls(arg.pages))]
    /\ fpc' = "returned"
    /\ UNCHANGED <<arg, crawlVars, auditVars, scoreVars, rateVars, flowVars, sitemapVars>>

AnalyzeInit ==
    /\ CrawlIdle
    /\ AuditIdle
    /\ RateIdle
    /\ FlowIdle
    /\ SitemapIdle
    /\ ScoringIdle
    /\ fpc = "called"
    /\ \E pages \in SeqsUpTo(AnalyzedPages, MaxAnalyzedPages) :
         arg = [kind |-> "analyze", pages |-> pages]
    /\ ret = NoCall

AnalyzeNext == AnalyzeCall

AnalyzeSpec == AnalyzeInit /\ [][AnalyzeNext]_vars

\* The positions of the pages whose status is in [400, 500).
ClientErrorPages ==
    {i \in DOMAIN arg.pages :
        arg.pages[i].status_code >= 400 /\ arg.pages[i].status_code < 500}

\* The emitted issues with the rule id crawl-4xx-pages.
Crawl4xxIssues ==
    {i \in DOMAIN ret.issues : ret.issues[i].rule_id = "crawl-4xx-pages"}

\* C25: _analyze_crawl_issues emits crawl-4xx-pages, with severity high and
\* affected_count equal to the number of pages with a status in [400, 500), if
\* and only if at least one page has such a status.
C25_Crawl4xxIssue ==
    fpc = "returned" =>
        /\ (Crawl4xxIssues # {}) <=> (ClientErrorPages # {})
        /\ Cardinality(Crawl4xxIssues) <= 1
        /\ \A i \in Crawl4xxIssues :
             /\ ret.issues[i].severity = "high"
             /\ ret.issues[i].affected_count = Cardinality(ClientErrorPages)

\* Two pages, one of them with a 4xx status: the issue counts one page.
C25_Witness ==
    /\ fpc = "returned"
    /\ Len(arg.pages) = 2
    /\ Cardinality(ClientErrorPages) = 1
    /\ \E i \in Crawl4xxIssues : ret.issues[i].affected_count = 1

\* C26: in every reachable state of a crawl, the frontier and the visited set
\* together hold at most 2 * max_pages URLs, for any number of sitemap URLs.
C26_FrontierPlusVisitedCapped ==
    Len(queue) + Cardinality(visited) <= 2 * max_pages

\* C27: initialization enqueues the (at most 1000) sitemap URLs at depth 1 with
\* source sitemap first and the root URL at depth 0 with source manual after
\* them, so that the sitemap seeds precede the root URL in the frontier.
C27_SitemapSeedsPrecedeRoot ==
    [][(cpc = "init" /\ cpc' = "loop") =>
          LET n == Len(queue')
          IN /\ n >= 1
             /\ n <= SitemapSeedCap + 1
             /\ queue'[n] = CrawlURL(RootUrl, 0, "manual")
             /\ \A i \in 1..(n - 1) :
                  /\ queue'[i].depth = 1
                  /\ queue'[i].via = "sitemap"]_vars

\* The frontier entries the tasks of the current batch were created for.
BatchItems(ts) == [i \in DOMAIN ts |-> ts[i].item]

IsPrefix(p, q) == Len(p) <= Len(q) /\ SubSeq(q, 1, Len(p)) = p

\* C28: batches are processed one after another: the tasks of a batch are
\* replaced only when each of them has completed, and what the tasks of a
\* batch enqueue stays in the frontier until a later batch is taken.
C28_BatchesSequential ==
    [][/\ BatchItems(tasks') # BatchItems(tasks) =>
             \A i \in DOMAIN tasks : tasks[i].pc = "done"
       /\ (tasks # <<>> \/ cpc = "gather") =>
             /\ IsPrefix(queue, queue')
             /\ \A i \in DOMAIN tasks' : i \in DOMAIN tasks
       /\ ~IsPrefix(queue, queue') =>
             /\ tasks = <<>>
             /\ tasks' # <<>>
             /\ BatchItems(tasks') \o queue' = queue]_vars

\* A later batch is in progress: one of its tasks runs for an entry that a
\* task of an earlier batch enqueued.
C28_Witness ==
    /\ cpc = "gather"
    /\ crawled_pages # <<>>
    /\ \E i \in DOMAIN tasks :
         /\ tasks[i].pc \in {"rate", "fetch"}
         /\ tasks[i].item.via = "link"

\* The coroutine of task i leaves the checks at the head of crawl_url.
LeavesChecks(i) ==
    /\ i \in DOMAIN tasks
    /\ i \in DOMAIN tasks'
    /\ tasks[i].pc = "wait"
    /\ tasks'[i].pc # "wait"

Dropped(i) == tasks'[i].pc = "done" /\ tasks'[i].result = NoneResult

SkippedUrls ==
    {n \in visited :
        /\ fetch_count[n] = 0
        /\ \A i \in DOMAIN tasks : tasks[i].norm # n
        /\ \A j \in DOMAIN raised : raised[j] # n}

UrlA == MkUrl("https", RootDomain, FALSE, <<"a">>, FALSE, <<>>, FALSE)

\* The parser stored for the URL's host answers False for it: it never read a
\* robots.txt, or the path is disallowed.
RobotsDenies(n) ==
    /\ n.labels = RootDomain
    /\ (~robots.parsed \/ n.segs \in robots.disallowed)

\* C30: a URL for which can_fetch is false is never fetched and never reaches
\* the rate limiter; it adds one to total_skipped, once, and produces no page.
C30_DisallowedNeverFetched ==
    /\ [](cpc # "init" =>
            /\ \A n \in NormalizedRawUrls :
                 RobotsDenies(n) =>
                    /\ fetch_count[n] = 0
                    /\ \A i \in DOMAIN tasks : tasks[i].norm # n
                    /\ \A i \in DOMAIN crawled_pages : crawled_pages[i].url # n
                    /\ n \in visited => n \in SkippedUrls
            /\ stats.total_skipped = Cardinality(SkippedUrls))
    /\ [][\A i \in 1..(2 * MaxConcurrency) :
            (/\ LeavesChecks(i)
             /\ visited' # visited
             /\ \E n \in visited' \ visited : RobotsDenies(n)) =>
                /\ Dropped(i)
                /\ stats'.total_skipped = stats.total_skipped + 1
                /\ sem' = sem
                /\ fetch_count' = fetch_count]_vars

\* robots.txt disallows /a: the crawl ended with /a visited and skipped, never
\* fetched, and the root page collected.
C30_Witness ==
    /\ cpc = "returned"
    /\ robots.disallowed = {<<"a">>}
    /\ UrlA \in visited
    /\ fetch_count[UrlA] = 0
    /\ stats.total_skipped = 1
    /\ crawled_pages # <<>>

(***************************************************************************)
(* The data handed from task to task within one audit (audit_tasks.py):    *)
(* run_crawl_task -> run_analysis_engines -> run_engine_task (one per      *)
(* engine) -> aggregate_engine_results -> finalize_audit_task, along the   *)
(* path on which no task fails.                                            *)
(***************************************************************************)
MaxFlowPages == 2

PlainTraits == [dup |-> FALSE, canonical |-> "self", slow |-> FALSE]

\* What a fetch yields: status, HTML body ("" when the fetch failed) and
\* whether the document has a <title>.
FetchedPages ==
    { [status_code |-> 200, html |-> "h1", title |-> TRUE],
      [status_code |-> 200, html |-> "h1", title |-> FALSE],
      [status_code |-> 404, html |-> "h1", title |-> FALSE],
      [status_code |-> 200, html |-> "", title |-> FALSE] }

\* The responses to GET /robots.txt.
RobotsResponses ==
    { [status_code |-> 200, text |-> "rules"],
      [status_code |-> 200, text |-> ""],
      [status_code |-> 404, text |-> ""] }

PageDataOf(fetched) ==
    [i \in DOMAIN fetched |->
        [url |-> i, status_code |-> fetched[i].status_code, traits |-> PlainTraits,
         html |-> fetched[i].html, title |-> fetched[i].title]]

\* _build_site_data: pages, sitemap_urls, robots_txt and crawl_stats keep
\* their defaults.
BuildSiteData ==
    [form |-> "model", pages |-> <<>>, robots_txt |-> "", populated |-> FALSE]

\* CrawlerEngine.run on the SiteData: pages and crawl_stats are assigned;
\* robots_txt is not (the response text goes to the RobotFileParser only).
CrawlerRun(sd, fetched, response) ==
    [sd EXCEPT !.pages = PageDataOf(fetched), !.populated = TRUE]

SuccessResult(engine_name, issues) ==
    [engine_name |-> engine_name, status |-> "success", issues |-> issues]

\* site_data.model_dump() / result.model_dump()
ModelDump(m) == [m EXCEPT !.form = "dict"]

\* SiteData.model_validate(data)
ModelValidate(dict) == [dict EXCEPT !.form = "model"]

\* _serialize_site_data: page["html"] = "" for every page of the dump.
SerializeSiteData(sd) ==
    LET data == ModelDump(sd)
    IN [data EXCEPT !.pages = [i \in DOMAIN @ |-> [@[i] EXCEPT !.html = ""]]]

DeserializeSiteData(data) == ModelValidate(data)

\* OnPageAnalyzerEngine.run: pages without HTML are passed over; the pages
\* without a title among the others are reported.
HasHtml(p) == p.html # ""
MissingTitle(p) == HasHtml(p) /\ ~p.title

OnPageIssues(sd) ==
    LET missing_title == SelectSeq(sd.pages, MissingTitle)
    IN IF missing_title = <<>> THEN <<>>
       ELSE <<EmittedIssue("onpage-missing-title", UrlsOf(missing_title),
                           Len(missing_title))>>

\* TechnicalSEOEngine.run: `if not site_data.robots_txt`.
TechnicalIssues(sd) == RobotsTxtIssues(sd.robots_txt = "")

EngineIssues(e, sd) ==
    IF e = "technical" THEN TechnicalIssues(sd) ELSE OnPageIssues(sd)

\* run_crawl_task: the crawler runs on a fresh SiteData; the task returns the
\* serialized SiteData and the crawler's result.
FlowCrawl ==
    /\ hpc = "idle"
    /\ \E fetched \in SeqsUpTo(FetchedPages, MaxFlowPages),
          response \in RobotsResponses :
         LET sd == CrawlerRun(BuildSiteData, fetched, response)
             result == SuccessResult("crawler", AnalyzeCrawlIssues(sd.pages))
         IN /\ robots_response' = response
            /\ crawl_site_data' = sd
            /\ crawl_return' = [site_data |-> SerializeSiteData(sd),
                                crawl_result |-> ModelDump(
                                    [form |-> "model"] @@ result)]
    /\ hpc' = "crawled"
    /\ UNCHANGED <<engine_input, engine_output, finalize_input, crawlVars,
                   auditVars, scoreVars, callVars, rateVars, sitemapVars>>

\* run_engine_task for one engine of the chord: the SiteData is rebuilt from
\* the dict run_analysis_engines passed on, the engine is executed and its
\* result is returned as a dict.
FlowEngine(e) ==
    /\ hpc = "crawled"
    /\ engine_input[e] = NoCall
    /\ LET sd == DeserializeSiteData(crawl_return.site_data)
       IN /\ engine_input' = [engine_input EXCEPT ![e] = sd]
          /\ engine_output' = [engine_output EXCEPT ![e] =
                ModelDump([form |-> "model"] @@ SuccessResult(e, EngineIssues(e, sd)))]
    /\ UNCHANGED <<hpc, robots_response, crawl_site_data, crawl_return,
                   finalize_input, crawlVars, auditVars, scoreVars, callVars,
                   rateVars, sitemapVars>>

\* ANALYSIS_ENGINES, in the order of the list.
AnalysisEngineOrder == <<"technical", "onpage">>

\* aggregate_engine_results returns the list of the engine results;
\* run_analysis_engines returns it with crawl_result and site_data;
\* finalize_audit_task reads prev_result["engine_results"] alone and stores
\* the validated results in settings["engine_results"], which the scoring
\* engine and the prioritization engine read.
FlowFinalize ==
    /\ hpc = "crawled"
    /\ \A e \in ANALYSIS_ENGINES : engine_output[e] # NoCall
    /\ LET prev_result == [engine_results |->
                               [i \in DOMAIN AnalysisEngineOrder |->
                                   engine_output[AnalysisEngineOrder[i]]],
                           crawl_result |-> crawl_return.crawl_result,
                           site_data |-> crawl_return.site_data]
       IN finalize_input' =
            [i \in DOMAIN prev_result.engine_results |->
                ModelValidate(prev_result.engine_results[i])]
    /\ hpc' = "finalized"
    /\ UNCHANGED <<robots_response, crawl_site_data, crawl_return, engine_input,
                   engine_output, crawlVars, auditVars, scoreVars, callVars,
                   rateVars, sitemapVars>>

FlowInit ==
    /\ CrawlIdle
    /\ AuditIdle
    /\ RateIdle
    /\ FlowIdle
    /\ SitemapIdle
    /\ ScoringIdle
    /\ CallIdle

FlowNext ==
    \/ FlowCrawl
    \/ \E e \in ANALYSIS_ENGINES : FlowEngine(e)
    \/ FlowFinalize

FlowSpec == FlowInit /\ [][FlowNext]_vars

\* C31: the SiteData every analysis engine receives has the page sequence and
\* the page fields, the raw HTML body included, of the SiteData the crawler
\* produced.
C31_EnginesSeeCrawledPages ==
    \A e \in ANALYSIS_ENGINES :
        engine_input[e] # NoCall => engine_input[e].pages = crawl_site_data.pages

\* all_issues of the prioritization engine.
RECURSIVE IssuesOf(_)
IssuesOf(results) ==
    IF results = <<>> THEN <<>>
    ELSE Head(results).issues \o IssuesOf(Tail(results))

Elements(seq) == {seq[i] : i \in DOMAIN seq}

\* C32: every issue emitted during the audit, those of the crawler included,
\* is among the issues given to the prioritization engine, and the crawler's
\* result is among the results given to the scoring engine.
C32_CrawlResultReachesFinalize ==
    hpc = "finalized" =>
        /\ \A e \in ANALYSIS_ENGINES :
             Elements(engine_output[e].issues) \subseteq Elements(IssuesOf(finalize_input))
        /\ Elements(crawl_return.crawl_result.issues)
               \subseteq Elements(IssuesOf(finalize_input))
        /\ \E i \in DOMAIN finalize_input : finalize_input[i].engine_name = "crawler"

\* C33: after the crawl of a site whose robots.txt came back with status 200
\* and a non-empty body, site_data.robots_txt is non-empty and the technical
\* engine of that audit does not emit tech-missing-robots-txt.
C33_RobotsTxtKnownToTechnical ==
    (/\ hpc # "idle"
     /\ robots_response.status_code = 200
     /\ robots_response.text # "") =>
        /\ crawl_site_data.robots_txt # ""
        /\ engine_output["technical"] # NoCall =>
             \A i \in DOMAIN engine_output["technical"].issues :
                 engine_output["technical"].issues[i].rule_id # "tech-missing-robots-txt"

(***************************************************************************)
(* Sitemap discovery: SitemapParser.discover and _fetch_sitemap            *)
(***************************************************************************)

\* The nesting of coroutine calls at which the interpreter raises
\* RecursionError; the real limit counts frames, this counts active calls of
\* _fetch_sitemap.
MaxNesting == 6

\* discover's three candidate locations, relative to the site's base.
SitemapCandidates == <<"/sitemap.xml", "/sitemap_index.xml", "/sitemap/sitemap.xml">>

\* What a site may serve at a sitemap location: nothing (a non-200 answer), a
\* <urlset> of page URLs, or a <sitemapindex> whose <loc> entries name
\* sitemaps, its own location included.
SitemapDocuments ==
    {[kind |-> "missing", locs |-> <<>>]}
        \cup {[kind |-> "urlset", locs |-> <<p>>] : p \in {"/a", "/b"}}
        \cup {[kind |-> "index", locs |-> l] :
                 l \in SeqsUpTo({SitemapCandidates[i] : i \in 1..2} \cup {"/gone.xml"}, 2)}

SitemapSites == [{SitemapCandidates[i] : i \in 1..3} -> SitemapDocuments]

\* session.get(url): the document at url; a location the site does not serve
\* answers with a status other than 200.
SitemapGet(url) ==
    IF url \in DOMAIN sm_site THEN sm_site[url] ELSE [kind |-> "missing", locs |-> <<>>]

\* The call _fetch_sitemap(url) up to its first nested call: a frame for a
\* sitemap index that still has <loc> entries to follow.
SitemapFrame(url) == [url |-> url, locs |-> SitemapGet(url).locs, urls |-> <<>>]

\* Whether _fetch_sitemap(url) returns without a nested call, and with what.
ReturnsAtOnce(url) == SitemapGet(url).kind # "index" \/ SitemapGet(url).locs = <<>>

ImmediateUrls(url) == IF SitemapGet(url).kind = "urlset" THEN SitemapGet(url).locs ELSE <<>>

\* discover: the site is fixed and the candidate list is built.
SitemapDiscover ==
    /\ sm_pc = "idle"
    /\ sm_site = <<>>
    /\ \E site \in SitemapSites : sm_site' = site
    /\ sm_candidates' = SitemapCandidates
    /\ sm_pc' = "discovering"
    /\ UNCHANGED <<sm_stack, sm_urls, crawlVars, auditVars, scoreVars, callVars,
                   rateVars, flowVars>>

\* discover's loop: _fetch_sitemap(candidate) is called; the loop ends, and
\* discover returns, when no candidate is left.
SitemapCandidate ==
    /\ sm_pc = "discovering"
    /\ sm_stack = <<>>
    /\ IF sm_candidates = <<>>
       THEN /\ sm_pc' = "returned"
            /\ UNCHANGED <<sm_candidates, sm_stack, sm_urls>>
       ELSE /\ sm_candidates' = Tail(sm_candidates)
            /\ IF ReturnsAtOnce(Head(sm_candidates))
               THEN /\ sm_urls' = sm_urls \cup Elements(ImmediateUrls(Head(sm_candidates)))
                    /\ UNCHANGED sm_stack
               ELSE /\ sm_stack' = <<SitemapFrame(Head(sm_candidates))>>
                    /\ UNCHANGED sm_urls
            /\ UNCHANGED sm_pc
    /\ UNCHANGED <<sm_site, crawlVars, auditVars, scoreVars, callVars, rateVars,
                   flowVars>>

\* Whether the nested call for a <loc> entry is entered.  _fetch_sitemap takes
\* no depth argument and keeps no set of visited sitemaps: the only thing
\* that stops the nesting is the interpreter's RecursionError, which the
\* except clause of the innermost call turns into an empty list.
NestingAllowed(stack) == Len(stack) < MaxNesting

\* The loop over the <loc> entries of a sitemap index: the next entry is
\* fetched by a nested call of _fetch_sitemap.
SitemapFollow ==
    /\ sm_pc = "discovering"
    /\ sm_stack # <<>>
    /\ LET d == Len(sm_stack)
           top == sm_stack[d]
       IN /\ top.locs # <<>>
          /\ LET loc == Head(top.locs)
                 rest == [top EXCEPT !.locs = Tail(top.locs)]
             IN IF ~NestingAllowed(sm_stack)
                THEN sm_stack' = [sm_stack EXCEPT ![d] = rest]
                ELSE IF ReturnsAtOnce(loc)
                THEN sm_stack' = [sm_stack EXCEPT
                                     ![d] = [rest EXCEPT !.urls = @ \o ImmediateUrls(loc)]]
                ELSE sm_stack' = [sm_stack EXCEPT ![d] = rest] \o <<SitemapFrame(loc)>>
    /\ UNCHANGED <<sm_pc, sm_site, sm_candidates, sm_urls, crawlVars, auditVars,
                   scoreVars, callVars, rateVars, flowVars>>

\* _fetch_sitemap returns its urls: to the calling _fetch_sitemap, which
\* extends its own list, or to discover, which updates sitemap_urls.
SitemapReturn ==
    /\ sm_pc = "discovering"
    /\ sm_stack # <<>>
    /\ LET d == Len(sm_stack)
           top == sm_stack[d]
       IN /\ top.locs = <<>>
          /\ IF d = 1
             THEN /\ sm_urls' = sm_urls \cup Elements(top.urls)
                  /\ sm_stack' = <<>>
             ELSE /\ sm_stack' = [SubSeq(sm_stack, 1, d - 1) EXCEPT
                                     ![d - 1].urls = @ \o top.urls]
                  /\ UNCHANGED sm_urls
    /\ UNCHANGED <<sm_pc, sm_site, sm_candidates, crawlVars, auditVars, scoreVars,
                   callVars, rateVars, flowVars>>

SitemapInit ==
    /\ CrawlIdle
    /\ AuditIdle
    /\ RateIdle
    /\ FlowIdle
    /\ SitemapIdle
    /\ ScoringIdle
    /\ CallIdle

SitemapNext ==
    \/ SitemapDiscover
    \/ SitemapCandidate
    \/ SitemapFollow
    \/ SitemapReturn

SitemapSpec == SitemapInit /\ [][SitemapNext]_vars

\* The number of sitemap-index references followed to reach the innermost
\* active call: the candidate fetched by discover is level 0.
ReferenceDepth == IF sm_stack = <<>> THEN 0 ELSE Len(sm_stack) - 1

\* C34: sitemap discovery never follows sitemap-index references more than 3
\* levels deep, whatever the site serves, an index that references itself
\* included.
C34_SitemapDepthBounded == ReferenceDepth <= 3

(***************************************************************************)
(* Rule conditions: OPERATORS, get_nested_value, RuleEvaluator             *)
(***************************************************************************)

\* Python values: None, str (a sequence of characters), int, and list.
PyNone == [t |-> "none"]
PyStr(s) == [t |-> "str", s |-> s]
PyInt(n) == [t |-> "int", n |-> n]
PyList(items) == [t |-> "list", items |-> items]

\* The characters of the strings used, in code-point order.
Alphabet == <<"'", "(", "0", "1", "2", "3", "[", "]", "a", "b">>

CodePoint(ch) == CHOOSE i \in DOMAIN Alphabet : Alphabet[i] = ch

\* The decimal digit of n, for n < 4.
Digit(n) == Alphabet[CodePoint("0") + n]

\* An operator call either returns a bool or raises.
Returns(b) == [kind |-> "return", value |-> b]
Raises(exc) == [kind |-> "raise", exc |-> exc]

\* a == b of Python.
RECURSIVE PyEq(_, _)
PyEq(a, b) ==
    /\ a.t = b.t
    /\ CASE a.t = "none" -> TRUE
         [] a.t = "str" -> a.s = b.s
         [] a.t = "int" -> a.n = b.n
         [] OTHER -> /\ Len(a.items) = Len(b.items)
                     /\ \A i \in DOMAIN a.items : PyEq(a.items[i], b.items[i])

\* bool(a): None, "", 0 and [] are falsy.
Truthy(a) ==
    CASE a.t = "none" -> FALSE
      [] a.t = "str" -> a.s # <<>>
      [] a.t = "int" -> a.n # 0
      [] OTHER -> a.items # <<>>

\* Whether sub occurs in s.
IsSubstring(sub, s) ==
    \E i \in 0..(Len(s) - Len(sub)) : SubSeq(s, i + 1, i + Len(sub)) = sub

\* Lexicographic order of two strings (str < str).
RECURSIVE SeqLess(_, _)
SeqLess(x, y) ==
    IF y = <<>> THEN FALSE
    ELSE IF x = <<>> THEN TRUE
    ELSE IF Head(x) # Head(y) THEN CodePoint(Head(x)) < CodePoint(Head(y))
    ELSE SeqLess(Tail(x), Tail(y))

\* a < b of Python: defined for two ints, two strs and two lists; a list
\* comparison compares the first differing items and raises when they are
\* not comparable.
RECURSIVE PyLess(_, _)
PyLess(a, b) ==
    IF a.t # b.t \/ a.t = "none" THEN Raises("TypeError")
    ELSE IF a.t = "int" THEN Returns(a.n < b.n)
    ELSE IF a.t = "str" THEN Returns(SeqLess(a.s, b.s))
    ELSE LET differ == {i \in 1..Min(Len(a.items), Len(b.items)) :
                            ~PyEq(a.items[i], b.items[i])}
         IN IF differ = {} THEN Returns(Len(a.items) < Len(b.items))
            ELSE LET i == CHOOSE j \in differ : \A k \in differ : j <= k
                 IN PyLess(a.items[i], b.items[i])

\* a <= b of Python.
PyLessEq(a, b) ==
    IF a.t # b.t \/ a.t = "none" THEN Raises("TypeError")
    ELSE IF PyEq(a, b) THEN Returns(TRUE)
    ELSE PyLess(a, b)

\* b in a of Python.
PyIn(b, a) ==
    CASE a.t = "str" -> IF b.t = "str" THEN Returns(IsSubstring(b.s, a.s))
                        ELSE Raises("TypeError")
      [] a.t = "list" -> Returns(\E i \in DOMAIN a.items : PyEq(a.items[i], b))
      [] OTHER -> Raises("TypeError")

Negated(r) == IF r.kind = "return" THEN Returns(~r.value) ELSE r

\* str(a).
PyStrOf(a) ==
    CASE a.t = "str" -> a.s
      [] a.t = "int" -> <<Digit(a.n)>>
      [] a.t = "list" -> <<"[">>
                           \o (IF a.items = <<>> THEN <<>>
                               ELSE <<"'">> \o a.items[1].s \o <<"'">>)
                           \o <<"]">>
      [] OTHER -> <<>>

\* A pattern that re.compile rejects: an unbalanced parenthesis.
InvalidPattern(s) == \E i \in DOMAIN s : s[i] = "("

\* bool(re.search(b, str(a))): the pattern must be a str, and one that
\* compiles; the patterns used have no metacharacter but "(".
ReSearch(b, a) ==
    IF b.t # "str" THEN Raises("TypeError")
    ELSE IF InvalidPattern(b.s) THEN Raises("re.error")
    ELSE Returns(IsSubstring(b.s, PyStrOf(a)))

\* len(a).
PyLen(a) ==
    CASE a.t = "str" -> Returns(Len(a.s))
      [] a.t = "list" -> Returns(Len(a.items))
      [] OTHER -> Raises("TypeError")

\* len(a) compared with b by cmp, one of "lt", "gt".
LengthCompare(a, b, cmp) ==
    IF PyLen(a).kind = "raise" THEN PyLen(a)
    ELSE PyLess(IF cmp = "lt" THEN PyInt(PyLen(a).value) ELSE b,
                IF cmp = "lt" THEN b ELSE PyInt(PyLen(a).value))

\* str(a).startswith(b) and str(a).endswith(b).
StartsWith(a, b) ==
    IF b.t # "str" THEN Raises("TypeError")
    ELSE Returns(IsPrefix(b.s, PyStrOf(a)))

EndsWith(a, b) ==
    IF b.t # "str" THEN Raises("TypeError")
    ELSE LET s == PyStrOf(a)
         IN Returns(Len(b.s) <= Len(s) /\ SubSeq(s, Len(s) - Len(b.s) + 1, Len(s)) = b.s)

\* The keys of OPERATORS.
OperatorNames ==
    {"eq", "ne", "lt", "gt", "lte", "gte", "contains", "not_contains", "matches",
     "not_matches", "exists", "not_exists", "in", "not_in", "length_lt",
     "length_gt", "length_eq", "starts_with", "ends_with"}

\* OPERATORS[op](a, b).
ApplyOperator(op, a, b) ==
    CASE op = "eq" -> Returns(PyEq(a, b))
      [] op = "ne" -> Returns(~PyEq(a, b))
      [] op = "lt" -> PyLess(a, b)
      [] op = "gt" -> PyLess(b, a)
      [] op = "lte" -> PyLessEq(a, b)
      [] op = "gte" -> PyLessEq(b, a)
      [] op = "contains" -> IF Truthy(a) THEN PyIn(b, a) ELSE Returns(FALSE)
      [] op = "not_contains" -> IF Truthy(a) THEN Negated(PyIn(b, a)) ELSE Returns(TRUE)
      [] op = "matches" -> IF Truthy(a) THEN ReSearch(b, a) ELSE Returns(FALSE)
      [] op = "not_matches" -> IF Truthy(a) THEN Negated(ReSearch(b, a)) ELSE Returns(TRUE)
      [] op = "exists" ->
            Returns(a.t # "none" /\ ~PyEq(a, PyStr(<<>>)) /\ ~PyEq(a, PyList(<<>>)))
      [] op = "not_exists" ->
            Returns(a.t = "none" \/ PyEq(a, PyStr(<<>>)) \/ PyEq(a, PyList(<<>>)))
      [] op = "in" -> IF Truthy(b) THEN PyIn(a, b) ELSE Returns(FALSE)
      [] op = "not_in" -> IF Truthy(b) THEN Negated(PyIn(a, b)) ELSE Returns(TRUE)
      [] op = "length_lt" -> IF Truthy(a) THEN LengthCompare(a, b, "lt") ELSE Returns(TRUE)
      [] op = "length_gt" -> IF Truthy(a) THEN LengthCompare(a, b, "gt") ELSE Returns(FALSE)
      [] op = "length_eq" ->
            IF ~Truthy(a) THEN Returns(FALSE)
            ELSE IF PyLen(a).kind = "raise" THEN PyLen(a)
            ELSE Returns(PyEq(PyInt(PyLen(a).value), b))
      [] op = "starts_with" -> IF Truthy(a) THEN StartsWith(a, b) ELSE Returns(FALSE)
      [] op = "ends_with" -> IF Truthy(a) THEN EndsWith(a, b) ELSE Returns(FALSE)

\* get_nested_value for a path of one key: dict.get gives None for a key the
\* page does not have.
GetNestedValue(page_data, field) ==
    IF field \in DOMAIN page_data THEN page_data[field] ELSE PyNone

\* RuleEvaluator.evaluate_condition (no transform): an unknown operator is
\* false; TypeError and AttributeError of the operator are caught and give
\* false; any other exception leaves the method.
EvaluateCondition(condition, page_data) ==
    LET value == GetNestedValue(page_data, condition.field)
    IN IF condition.operator \notin OperatorNames THEN Returns(FALSE)
       ELSE LET r == ApplyOperator(condition.operator, value, condition.value)
            IN IF r.kind = "raise" /\ r.exc \in {"TypeError", "AttributeError"}
               THEN Returns(FALSE)
               ELSE r

\* RuleEvaluator.evaluate_rule: every condition is evaluated before the
\* results are combined, so an exception of any condition leaves the method.
EvaluateRule(rule, page_data) ==
    LET results == [i \in DOMAIN rule.conditions |->
                        EvaluateCondition(rule.conditions[i], page_data)]
        raising == {i \in DOMAIN results : results[i].kind = "raise"}
    IN IF raising # {}
       THEN results[CHOOSE i \in raising : \A j \in raising : i <= j]
       ELSE IF rule.condition_logic = "AND"
       THEN Returns(\A i \in DOMAIN results : results[i].value)
       ELSE IF rule.condition_logic = "OR"
       THEN Returns(\E i \in DOMAIN results : results[i].value)
       ELSE Returns(FALSE)

\* The values a page field and a condition value take.
FieldValues ==
    {PyNone, PyStr(<<>>), PyStr(<<"a", "b">>), PyInt(0), PyInt(2), PyList(<<>>),
     PyList(<<PyStr(<<"a", "b">>)>>)}

ConditionValues ==
    {PyNone, PyStr(<<>>), PyStr(<<"a">>), PyStr(<<"(">>), PyInt(0), PyInt(2),
     PyList(<<>>), PyList(<<PyStr(<<"a", "b">>)>>), PyList(<<PyNone>>)}

\* The pages: one whose field "title" has a value, and one without the key.
RulePages == {<<>>} \cup {[k \in {"title"} |-> v] : v \in FieldValues}

RuleConditions ==
    [field : {"title"}, operator : OperatorNames \cup {"unknown"},
     value : ConditionValues]

MaxConditions == 2

\* The conditions of the rules evaluated as a whole.
RuleListConditions ==
    [field : {"title"}, operator : {"matches", "lt"},
     value : {PyStr(<<"a">>), PyStr(<<"(">>)}]

Rules ==
    [conditions : SeqsUpTo(RuleListConditions, MaxConditions),
     condition_logic : {"AND", "OR", "XOR"}]

EvaluateConditionCall ==
    /\ fpc = "called"
    /\ arg.kind = "evaluate_condition"
    /\ ret' = EvaluateCondition(arg.condition, arg.page_data)
    /\ fpc' = "returned"
    /\ UNCHANGED <<arg, crawlVars, auditVars, scoreVars, rateVars, flowVars,
                   sitemapVars>>

EvaluateRuleCall ==
    /\ fpc = "called"
    /\ arg.kind = "evaluate_rule"
    /\ ret' = EvaluateRule(arg.rule, arg.page_data)
    /\ fpc' = "returned"
    /\ UNCHANGED <<arg, crawlVars, auditVars, scoreVars, rateVars, flowVars,
                   sitemapVars>>

RuleInit ==
    /\ CrawlIdle
    /\ AuditIdle
    /\ RateIdle
    /\ FlowIdle
    /\ SitemapIdle
    /\ ScoringIdle
    /\ fpc = "called"
    /\ \/ \E c \in RuleConditions, p \in RulePages :
              arg = [kind |-> "evaluate_condition", condition |-> c, page_data |-> p]
       \/ \E r \in Rules, p \in {<<>>, [k \in {"title"} |-> PyStr(<<"a", "b">>)]} :
              arg = [kind |-> "evaluate_rule", rule |-> r, page_data |-> p]
    /\ ret = NoCall

RuleNext ==
    \/ EvaluateConditionCall
    \/ EvaluateRuleCall

RuleSpec == RuleInit /\ [][RuleNext]_vars

\* The operators the table lists as true for a null left operand.
TrueOnNull == {"not_contains", "not_matches", "not_exists", "length_lt"}

\* evaluate_condition has returned for a condition whose field is missing
\* from the page.
NullFieldEvaluated ==
    /\ fpc = "returned"
    /\ arg.kind = "evaluate_condition"
    /\ arg.condition.operator \in OperatorNames
    /\ GetNestedValue(arg.page_data, arg.condition.field) = PyNone

\* C35: for a condition whose field resolves to null, evaluate_condition
\* returns true exactly for not_contains, not_matches, not_exists and
\* length_lt, and false for every other operator of the table.
C35_NullOperandTable ==
    NullFieldEvaluated =>
        /\ ret.kind = "return"
        /\ ret.value = (arg.condition.operator \in TrueOnNull)

\* C36: evaluate_condition and evaluate_rule never raise: the call returns a
\* bool for every operator, field value and condition value.
C36_EvaluationNeverRaises ==
    (fpc = "returned" /\ arg.kind \in {"evaluate_condition", "evaluate_rule"})
        => ret.kind = "return"

(***************************************************************************)
(* Ending and persistence of an audit                                      *)
(***************************************************************************)

\* Every queued task is eventually executed by a worker.
AuditFairSpec == AuditSpec /\ WF_vars(AuditNext)

\* C37: every audit whose workflow was dispatched eventually reaches status
\* complete or failed: no audit stays forever in crawling or analyzing.
C37_DispatchedAuditEnds ==
    (status \in {"crawling", "analyzing"}) ~> (status \in {"complete", "failed"})

\* The number of times _persist_pages has committed the pages of the audit.
RECURSIVE CountStep(_, _)
CountStep(history, step) ==
    IF history = <<>> THEN 0
    ELSE (IF Head(history) = step THEN 1 ELSE 0) + CountStep(Tail(history), step)

\* C38: the crawled pages of one audit are persisted at most once, whatever
\* crawl-task failures and retries happen.
C38_PagesPersistedOnce == CountStep(events, Step("pages_persisted")) <= 1

(***************************************************************************)
(* Completeness of the crawl                                               *)
(***************************************************************************)

\* The same-domain URLs reachable from the root within one link: the root and
\* what the root page links to.
ReachableWithinOne == {Normalize(RootUrl)} \cup root_links

\* C39: crawl completeness, for max_depth 1 and a crawl in which no coroutine
\* raised: when the URLs reachable from the root within max_depth links number
\* at most max_pages and robots denies none of them, every one of them has
\* been fetched when the crawl ends.
C39_ReachableUrlsFetched ==
    ( /\ cpc = "returned"
      /\ max_depth = 1
      /\ raised = <<>>
      /\ Cardinality(ReachableWithinOne) <= max_pages
      /\ \A n \in ReachableWithinOne : ~RobotsDenies(n) )
        => \A n \in ReachableWithinOne : fetch_count[n] >= 1

(***************************************************************************)
(* The rate the bucket enforces                                            *)
(***************************************************************************)

\* The calls of acquire that returned at a time from s to e.
CompletedWithin(s, e) ==
    {i \in 1..Len(calls) :
        calls[i].finished /\ s <= calls[i].returned_at /\ calls[i].returned_at <= e}

\* C40: token-bucket bound, for a bucket that holds at least one token: in
\* every time interval of length T the number of acquire calls that complete
\* is at most capacity + rate * T (both sides in units of 1/TokenUnit token).
C40_TokenBucketBound ==
    limiter.max_tokens >= TokenUnit =>
        \A s \in 0..MaxTime : \A e \in s..MaxTime :
            TokenUnit * Cardinality(CompletedWithin(s, e))
                <= limiter.max_tokens + limiter.rate * (e - s)
====
